---------------------------- MODULE Spec2Model ----------------------------
(***************************************************************************)
(* The subset-closure engine of databaser (core/collectors.py) over the    *)
(* schema model (core/db_entities.py), the SQL builder                     *)
(* (core/repositories.py) and the helpers (core/helpers.py).               *)
(*                                                                         *)
(* A run is: one schema with its source rows and configuration (a          *)
(* scenario), one tenant set, one row-count mode; then the collectors in   *)
(* stage order.  Coroutines are tasks of the asyncio event loop: a task    *)
(* runs without interruption up to its next real suspension (a fetch or an *)
(* asyncio.wait), callbacks run in FIFO order, fetches complete in any     *)
(* order.                                                                  *)
(***************************************************************************)
EXTENDS Integers, Sequences, FiniteSets, TLC

\* ------------------------------------------------------------------ bounds

\* tenant key values are drawn from 1..MaxTenant
MaxTenant == 2
\* how many fetches of a run may end in an error
MaxErrors == 1
\* how many times the whole closure is run in one process
MaxRuns == 2
\* a chunk size below the size of the sets of the scenarios
SmallChunk == 1

\* ------------------------------------------------------- program constants

\* DBTable.inaccuracy_count
inaccuracy_count == 100
\* BaseCollector.CHUNK_SIZE and SQLRepository.CHUNK_SIZE
CHUNK_SIZE == 60000

NULL == 0
NoTable == "-"

\* ------------------------------------------------------------------ helpers

Range(s) == {s[i] : i \in DOMAIN s}

\* the elements of a set of integers in iteration order (small ints iterate
\* in ascending order in CPython)
SetToSeq(S) ==
    [i \in 1 .. Cardinality(S) |-> CHOOSE x \in S : Cardinality({y \in S : y < x}) = i - 1]

Take(s, n) == SubSeq(s, 1, IF n < Len(s) THEN n ELSE Len(s))

Drop(s, n) == SubSeq(s, n + 1, Len(s))

\* helpers.make_chunks(iterable, size, is_list=True): successive slices of
\* at most size elements
\* make_chunks with islice(iterator, size) after the first element: chunks
\* of size + 1
make_long_chunks(s, size) ==
    [k \in 1 .. (Len(s) + size) \div (size + 1) |-> Take(Drop(s, (k - 1) * (size + 1)), size + 1)]

make_chunks(s, size) ==
    [k \in 1 .. (Len(s) + size - 1) \div size |-> Take(Drop(s, (k - 1) * size), size)]

RECURSIVE FlatMap(_, _)
FlatMap(Op(_), s) == IF s = <<>> THEN <<>> ELSE Op(Head(s)) \o FlatMap(Op, Tail(s))

\* the first-occurrence order of the distinct elements of a sequence
RECURSIVE Distinct(_)
Distinct(s) ==
    IF s = <<>> THEN <<>>
    ELSE LET r == Distinct(Take(s, Len(s) - 1))
         IN  IF s[Len(s)] \in Range(r) THEN r ELSE Append(r, s[Len(s)])


\* ---------------------------------------------------------------- scenarios

\* one catalog fact of DstDatabase._prepare_chunk_tables: a column of table t
\* named c, of type ty, with its constraint kinds and, for a FOREIGN KEY, the
\* referenced table
Col(t, c, ty, ref, kinds) == [t |-> t, c |-> c, ty |-> ty, ref |-> ref, kinds |-> kinds]

Pk(t) == Col(t, "id", "integer", NoTable, {"PK"})

Fk(t, c, ref) == Col(t, c, "integer", ref, {"FK"})

Plain(t, c) == Col(t, c, "integer", NoTable, {})

\* spec.md scenario 1: tenant <- org <- usr
ScnChain ==
    [ tables |-> <<"tenant", "org", "usr">>,
      cols |-> << Pk("tenant"),
                  Pk("org"), Fk("org", "tenant_id", "tenant"),
                  Pk("usr"), Fk("usr", "org_id", "org") >>,
      rows |-> [ tenant |-> { [id |-> 1], [id |-> 2] },
                 org |-> { [id |-> 1, tenant_id |-> 1], [id |-> 2, tenant_id |-> 2] },
                 usr |-> { [id |-> 1, org_id |-> 1], [id |-> 2, org_id |-> 2],
                           [id |-> 3, org_id |-> NULL] } ],
      FULL_TRANSFER_TABLES |-> {},
      TABLES_WITH_GENERIC_FOREIGN_KEY |-> {},
      EXCLUDED_TABLES |-> {},
      content_type_table |-> <<>> ]

\* a self-referencing table that carries the key column; the parent chain
\* 5 -> 4 -> 6 leaves tenant 1
ScnNode ==
    [ tables |-> <<"tenant", "node">>,
      cols |-> << Pk("tenant"),
                  Pk("node"), Fk("node", "parent_id", "node"),
                  Fk("node", "tenant_id", "tenant") >>,
      rows |-> [ tenant |-> { [id |-> 1], [id |-> 2] },
                 node |-> { [id |-> 1, parent_id |-> NULL, tenant_id |-> 1],
                            [id |-> 2, parent_id |-> 1, tenant_id |-> 1],
                            [id |-> 5, parent_id |-> 4, tenant_id |-> 1],
                            [id |-> 4, parent_id |-> 6, tenant_id |-> 2],
                            [id |-> 6, parent_id |-> NULL, tenant_id |-> 2] } ],
      FULL_TRANSFER_TABLES |-> {},
      TABLES_WITH_GENERIC_FOREIGN_KEY |-> {},
      EXCLUDED_TABLES |-> {},
      content_type_table |-> <<>> ]

\* a referent reached over two paths: t -> u -> w and t -> w
ScnDiamond ==
    [ tables |-> <<"tenant", "t", "u", "w">>,
      cols |-> << Pk("tenant"),
                  Pk("t"), Fk("t", "tenant_id", "tenant"), Fk("t", "u_id", "u"),
                  Fk("t", "w_id", "w"),
                  Pk("u"), Fk("u", "w_id", "w"),
                  Pk("w") >>,
      rows |-> [ tenant |-> { [id |-> 1], [id |-> 2] },
                 t |-> { [id |-> 1, tenant_id |-> 1, u_id |-> 1, w_id |-> 1],
                         [id |-> 2, tenant_id |-> 2, u_id |-> 2, w_id |-> 3] },
                 u |-> { [id |-> 1, w_id |-> 2], [id |-> 2, w_id |-> 3] },
                 w |-> { [id |-> 1], [id |-> 2], [id |-> 3] } ],
      FULL_TRANSFER_TABLES |-> {},
      TABLES_WITH_GENERIC_FOREIGN_KEY |-> {},
      EXCLUDED_TABLES |-> {},
      content_type_table |-> <<>> ]

\* spec.md scenario 2: a foreign-key cycle a -> b -> c -> a, entered from a
\* key-column table; the row of c leads back to another row of a
ScnCycle ==
    [ tables |-> <<"tenant", "seed", "a", "b", "c">>,
      cols |-> << Pk("tenant"),
                  Pk("seed"), Fk("seed", "tenant_id", "tenant"), Fk("seed", "a_id", "a"),
                  Pk("a"), Fk("a", "b_id", "b"),
                  Pk("b"), Fk("b", "c_id", "c"),
                  Pk("c"), Fk("c", "a_id", "a") >>,
      rows |-> [ tenant |-> { [id |-> 1], [id |-> 2] },
                 seed |-> { [id |-> 1, tenant_id |-> 1, a_id |-> 1],
                            [id |-> 2, tenant_id |-> 2, a_id |-> 3] },
                 a |-> { [id |-> 1, b_id |-> 1], [id |-> 2, b_id |-> 2],
                         [id |-> 3, b_id |-> NULL] },
                 b |-> { [id |-> 1, c_id |-> 1], [id |-> 2, c_id |-> NULL] },
                 c |-> { [id |-> 1, a_id |-> 2] } ],
      FULL_TRANSFER_TABLES |-> {},
      TABLES_WITH_GENERIC_FOREIGN_KEY |-> {},
      EXCLUDED_TABLES |-> {},
      content_type_table |-> <<>> ]

\* spec.md scenario 3 without the key column: the self-referencing table cat
\* is reached from the key-column table item; the parent chain is 3 -> 2 -> 1
ScnTree ==
    [ tables |-> <<"tenant", "item", "cat">>,
      cols |-> << Pk("tenant"),
                  Pk("item"), Fk("item", "tenant_id", "tenant"), Fk("item", "cat_id", "cat"),
                  Pk("cat"), Fk("cat", "parent_id", "cat") >>,
      rows |-> [ tenant |-> { [id |-> 1], [id |-> 2] },
                 item |-> { [id |-> 1, tenant_id |-> 1, cat_id |-> 3],
                            [id |-> 2, tenant_id |-> 2, cat_id |-> 4] },
                 cat |-> { [id |-> 1, parent_id |-> NULL], [id |-> 2, parent_id |-> 1],
                           [id |-> 3, parent_id |-> 2], [id |-> 4, parent_id |-> NULL] } ],
      FULL_TRANSFER_TABLES |-> {},
      TABLES_WITH_GENERIC_FOREIGN_KEY |-> {},
      EXCLUDED_TABLES |-> {},
      content_type_table |-> <<>> ]

\* a table with a foreign key to another table and one to itself, so that
\* _direct_recursively_preparing_table awaits both of its lists; the key
\* table holds tenant 1 only
ScnBranch ==
    [ tables |-> <<"tenant", "doc", "dir", "kind">>,
      cols |-> << Pk("tenant"),
                  Pk("doc"), Fk("doc", "tenant_id", "tenant"), Fk("doc", "dir_id", "dir"),
                  Pk("dir"), Fk("dir", "kind_id", "kind"), Fk("dir", "parent_id", "dir"),
                  Pk("kind") >>,
      rows |-> [ tenant |-> { [id |-> 1] },
                 doc |-> { [id |-> 1, tenant_id |-> 1, dir_id |-> 1] },
                 dir |-> { [id |-> 1, kind_id |-> 1, parent_id |-> NULL] },
                 kind |-> { [id |-> 1] } ],
      FULL_TRANSFER_TABLES |-> {},
      TABLES_WITH_GENERIC_FOREIGN_KEY |-> {},
      EXCLUDED_TABLES |-> {},
      content_type_table |-> <<>> ]

\* a chain of three foreign keys below a key-column table, two rows of the
\* tenant at its head; u and w hold one more row than is referenced
ScnDeep ==
    [ tables |-> <<"tenant", "t", "u", "w", "x">>,
      cols |-> << Pk("tenant"),
                  Pk("t"), Fk("t", "tenant_id", "tenant"), Fk("t", "u_id", "u"),
                  Pk("u"), Fk("u", "w_id", "w"),
                  Pk("w"), Fk("w", "x_id", "x"),
                  Pk("x") >>,
      rows |-> [ tenant |-> { [id |-> 1], [id |-> 2] },
                 t |-> { [id |-> 1, tenant_id |-> 1, u_id |-> 1],
                         [id |-> 2, tenant_id |-> 1, u_id |-> 2] },
                 u |-> { [id |-> 1, w_id |-> 1], [id |-> 2, w_id |-> 2],
                         [id |-> 3, w_id |-> NULL] },
                 w |-> { [id |-> 1, x_id |-> 1], [id |-> 2, x_id |-> 2],
                         [id |-> 3, x_id |-> NULL] },
                 x |-> { [id |-> 1], [id |-> 2] } ],
      FULL_TRANSFER_TABLES |-> {},
      TABLES_WITH_GENERIC_FOREIGN_KEY |-> {},
      EXCLUDED_TABLES |-> {},
      content_type_table |-> <<>> ]

\* an excluded table that carries the key column, is referenced by a
\* key-column table and refers to it
ScnExcluded ==
    [ tables |-> <<"tenant", "org", "audit">>,
      cols |-> << Pk("tenant"),
                  Pk("org"), Fk("org", "tenant_id", "tenant"), Fk("org", "audit_id", "audit"),
                  Pk("audit"), Fk("audit", "tenant_id", "tenant"),
                  Fk("audit", "org_id", "org") >>,
      rows |-> [ tenant |-> { [id |-> 1], [id |-> 2] },
                 org |-> { [id |-> 1, tenant_id |-> 1, audit_id |-> 1],
                           [id |-> 2, tenant_id |-> 2, audit_id |-> 2] },
                 audit |-> { [id |-> 1, tenant_id |-> 1, org_id |-> 1],
                             [id |-> 2, tenant_id |-> 2, org_id |-> 2] } ],
      FULL_TRANSFER_TABLES |-> {},
      TABLES_WITH_GENERIC_FOREIGN_KEY |-> {},
      EXCLUDED_TABLES |-> {"audit"},
      content_type_table |-> <<>> ]

\* mutual references a <-> b, entered from a key-column table
ScnMutual ==
    [ tables |-> <<"tenant", "m", "a", "b">>,
      cols |-> << Pk("tenant"),
                  Pk("m"), Fk("m", "tenant_id", "tenant"), Fk("m", "a_id", "a"),
                  Pk("a"), Fk("a", "b_id", "b"),
                  Pk("b"), Fk("b", "a_id", "a") >>,
      rows |-> [ tenant |-> { [id |-> 1], [id |-> 2] },
                 m |-> { [id |-> 1, tenant_id |-> 1, a_id |-> 1],
                         [id |-> 2, tenant_id |-> 2, a_id |-> NULL] },
                 a |-> { [id |-> 1, b_id |-> 1], [id |-> 2, b_id |-> NULL] },
                 b |-> { [id |-> 1, a_id |-> 2] } ],
      FULL_TRANSFER_TABLES |-> {},
      TABLES_WITH_GENERIC_FOREIGN_KEY |-> {},
      EXCLUDED_TABLES |-> {},
      content_type_table |-> <<>> ]

\* spec.md scenario 5: the reverse pass pulls task, whose forward pass pulls usr
ScnTask ==
    [ tables |-> <<"tenant", "project", "task", "usr">>,
      cols |-> << Pk("tenant"),
                  Pk("project"), Fk("project", "tenant_id", "tenant"),
                  Pk("task"), Fk("task", "project_id", "project"),
                  Fk("task", "owner_id", "usr"),
                  Pk("usr") >>,
      rows |-> [ tenant |-> { [id |-> 1], [id |-> 2] },
                 project |-> { [id |-> 1, tenant_id |-> 1], [id |-> 2, tenant_id |-> 2] },
                 task |-> { [id |-> 1, project_id |-> 1, owner_id |-> 1],
                            [id |-> 2, project_id |-> 2, owner_id |-> 2] },
                 usr |-> { [id |-> 1], [id |-> 2], [id |-> 3] } ],
      FULL_TRANSFER_TABLES |-> {},
      TABLES_WITH_GENERIC_FOREIGN_KEY |-> {},
      EXCLUDED_TABLES |-> {},
      content_type_table |-> <<>> ]

\* spec.md scenario 4: the generic table comment is also a forward-pass
\* referent of post
ScnGeneric ==
    [ tables |-> <<"tenant", "post", "comment">>,
      cols |-> << Pk("tenant"),
                  Pk("post"), Fk("post", "tenant_id", "tenant"),
                  Fk("post", "pin_id", "comment"),
                  Pk("comment"), Plain("comment", "content_type_id"),
                  Plain("comment", "object_id") >>,
      rows |-> [ tenant |-> { [id |-> 1], [id |-> 2] },
                 post |-> { [id |-> 1, tenant_id |-> 1, pin_id |-> 1],
                            [id |-> 2, tenant_id |-> 2, pin_id |-> NULL] },
                 comment |-> { [id |-> 1, content_type_id |-> 7, object_id |-> 2],
                               [id |-> 2, content_type_id |-> 7, object_id |-> 1],
                               [id |-> 3, content_type_id |-> 8, object_id |-> 1],
                               [id |-> 4, content_type_id |-> 7, object_id |-> NULL] } ],
      FULL_TRANSFER_TABLES |-> {},
      TABLES_WITH_GENERIC_FOREIGN_KEY |-> {"comment"},
      EXCLUDED_TABLES |-> {},
      content_type_table |-> << <<"post", 7>> >> ]

\* full-transfer tables: the key table itself and the key-column table city;
\* region is outside the tenant axis, and the only parent p of t has no rows
ScnPlain ==
    [ tables |-> <<"tenant", "region", "city", "p", "t">>,
      cols |-> << Pk("tenant"),
                  Pk("region"),
                  Pk("city"), Fk("city", "tenant_id", "tenant"), Fk("city", "region_id", "region"),
                  Pk("p"),
                  Pk("t"), Fk("t", "p_id", "p") >>,
      rows |-> [ tenant |-> { [id |-> 1], [id |-> 2] },
                 region |-> { [id |-> 1], [id |-> 2] },
                 city |-> { [id |-> 1, tenant_id |-> 1, region_id |-> 1],
                            [id |-> 2, tenant_id |-> 2, region_id |-> 2] },
                 p |-> {},
                 t |-> { [id |-> 1, p_id |-> NULL] } ],
      FULL_TRANSFER_TABLES |-> {"tenant", "city"},
      TABLES_WITH_GENERIC_FOREIGN_KEY |-> {},
      EXCLUDED_TABLES |-> {},
      content_type_table |-> <<>> ]

\* a key-column table that refers to a full-transfer table without the key
\* column, ready before the key-column stage, and to a table that is not
ScnReady ==
    [ tables |-> <<"tenant", "region", "mayor", "city">>,
      cols |-> << Pk("tenant"),
                  Pk("region"),
                  Pk("mayor"),
                  Pk("city"), Fk("city", "tenant_id", "tenant"), Fk("city", "region_id", "region"),
                  Fk("city", "mayor_id", "mayor") >>,
      rows |-> [ tenant |-> { [id |-> 1], [id |-> 2] },
                 region |-> { [id |-> 1], [id |-> 2] },
                 mayor |-> { [id |-> 1], [id |-> 2] },
                 city |-> { [id |-> 1, tenant_id |-> 1, region_id |-> 1, mayor_id |-> 1],
                            [id |-> 2, tenant_id |-> 2, region_id |-> 2, mayor_id |-> 2] } ],
      FULL_TRANSFER_TABLES |-> {"region"},
      TABLES_WITH_GENERIC_FOREIGN_KEY |-> {},
      EXCLUDED_TABLES |-> {},
      content_type_table |-> <<>> ]

\* a table without the key column that has a foreign key to a key-column
\* table and a unique foreign key to a table that refers to a key-column
\* table
ScnPriority ==
    [ tables |-> <<"tenant", "a", "b", "t">>,
      cols |-> << Pk("tenant"),
                  Pk("a"), Fk("a", "tenant_id", "tenant"),
                  Pk("b"), Fk("b", "a_id", "a"),
                  Pk("t"), Fk("t", "a_id", "a"), Col("t", "b_id", "integer", "b", {"FK", "UQ"}) >>,
      rows |-> [ tenant |-> { [id |-> 1], [id |-> 2] },
                 a |-> { [id |-> 1, tenant_id |-> 1], [id |-> 2, tenant_id |-> 2] },
                 b |-> {},
                 t |-> {} ],
      FULL_TRANSFER_TABLES |-> {},
      TABLES_WITH_GENERIC_FOREIGN_KEY |-> {},
      EXCLUDED_TABLES |-> {},
      content_type_table |-> <<>> ]

\* a table without the key column whose foreign key refers to a generic table
\* that carries the comments of the key table
ScnPinned ==
    [ tables |-> <<"tenant", "note", "comment">>,
      cols |-> << Pk("tenant"),
                  Pk("note"), Fk("note", "pin_id", "comment"),
                  Pk("comment"), Plain("comment", "content_type_id"),
                  Plain("comment", "object_id") >>,
      rows |-> [ tenant |-> { [id |-> 1], [id |-> 2] },
                 note |-> { [id |-> 1, pin_id |-> 1] },
                 comment |-> { [id |-> 1, content_type_id |-> 7, object_id |-> 1],
                               [id |-> 2, content_type_id |-> 7, object_id |-> 2] } ],
      FULL_TRANSFER_TABLES |-> {},
      TABLES_WITH_GENERIC_FOREIGN_KEY |-> {"comment"},
      EXCLUDED_TABLES |-> {},
      content_type_table |-> << <<"tenant", 7>> >> ]

ScnAuthor ==
    [ tables |-> <<"tenant", "person", "comment">>,
      cols |-> << Pk("tenant"),
                  Pk("person"),
                  Pk("comment"), Plain("comment", "content_type_id"),
                  Plain("comment", "object_id"),
                  Fk("comment", "author_id", "person") >>,
      rows |-> [ tenant |-> { [id |-> 1], [id |-> 2] },
                 person |-> { [id |-> 1], [id |-> 2] },
                 comment |-> { [id |-> 1, content_type_id |-> 7, object_id |-> 1,
                                author_id |-> 1],
                               [id |-> 2, content_type_id |-> 7, object_id |-> 2,
                                author_id |-> 2],
                               [id |-> 3, content_type_id |-> 7, object_id |-> 1,
                                author_id |-> 2] } ],
      FULL_TRANSFER_TABLES |-> {},
      TABLES_WITH_GENERIC_FOREIGN_KEY |-> {"comment"},
      EXCLUDED_TABLES |-> {},
      content_type_table |-> << <<"tenant", 7>> >> ]

Scenarios ==
    <<ScnChain, ScnNode, ScnDiamond, ScnCycle, ScnTree, ScnMutual, ScnTask, ScnGeneric, ScnPlain,
      ScnBranch, ScnDeep, ScnExcluded, ScnReady, ScnPriority, ScnPinned,
      ScnAuthor>>

\* settings.KEY_TABLE_NAME and settings.KEY_COLUMN_NAMES
KEY_TABLE_NAME == "tenant"

KEY_COLUMN_NAMES == {"tenant_id"}

TenantSets == {S \in SUBSET (1 .. MaxTenant) : S # {}}

\* DBTable.full_count is written by the row-count stage, which is outside the
\* closure: never run (the value of __init__), the row count, or a count
\* taken when the table held inaccuracy_count more rows
FullCountModes == {"zero", "exact", "stale"}

\* the values of BaseCollector.CHUNK_SIZE and SQLRepository.CHUNK_SIZE of a
\* process: the shipped one, or one small enough to split the sets
ChunkSizes == {SmallChunk, CHUNK_SIZE}

\* the limit of the source pool when it is created with the default size
PoolLimit == 10

VARIABLES
    scn,          \* the scenario of this run: an index of Scenarios
    db,           \* DstDatabase: the tables and columns loaded for this run
    tenants,      \* BaseCollector._key_column_values
    full_count,   \* DBTable.full_count, per table
    chunk_size,   \* BaseCollector.CHUNK_SIZE = SQLRepository.CHUNK_SIZE
    need,         \* DBTable.need_transfer_pks, per table
    checked,      \* DBTable.is_checked, per table
    ready,        \* DBTable.is_ready_for_transferring, per table
    hashes,       \* BaseCollector.QUERY_HASHES
    dedup,        \* a statement whose hash is in QUERY_HASHES is dropped
    tasks,        \* the asyncio tasks of the current stage; task 1 is the orchestrator
    readyq,       \* the event loop's queue of scheduled callbacks
    running,      \* the task that holds the loop, 0 when none
    stacks,       \* the stack_tables set objects, by identity
    errors,       \* the fetches that have ended in an error so far
    failed,       \* an exception has left a collect() call
    run,          \* the number of the closure run in this process
    first_need,   \* need_transfer_pks at the end of the first run
    hist,         \* observations for the properties
    loading,      \* DstDatabase.prepare_tables under way: records, columns, caches
    pool_size,    \* the limit of the source connection pool
    arg,          \* the arguments of a helper called on its own
    out           \* what that call returned: <<>> before the call, <<value>> after

vars == <<arg, out, loading, pool_size, scn, db, tenants, full_count, chunk_size, dedup, need, checked, ready, hashes, tasks,
          readyq, running, stacks, errors, failed, run, first_need, hist>>

inputs == <<arg, out, loading, pool_size, scn, db, tenants, full_count, chunk_size, dedup>>

observed == <<errors, failed, run, first_need, hist>>


\* ------------------------------------------------- schema model (DBColumn)

is_foreign_key(c) == "FK" \in c.kinds

is_primary_key(c) == "PK" \in c.kinds

is_unique(c) == "UQ" \in c.kinds \/ (is_foreign_key(c) /\ is_primary_key(c))

\* DBColumn.constraint_table after loading: the catalog names the own table
\* for a PRIMARY KEY or UNIQUE row and the referenced table for a FOREIGN KEY
constraint_table(c) ==
    IF is_foreign_key(c) THEN c.ref
    ELSE IF c.kinds # {} THEN c.t
    ELSE NoTable

is_self_fk(c) == is_foreign_key(c) /\ constraint_table(c) = c.t

is_key_column(c) == c.c \in KEY_COLUMN_NAMES \/ constraint_table(c) = KEY_TABLE_NAME

\* ------------------------------------------- schema model (DstDatabase)

\* DstDatabase.prepare_table_names: the tables of the catalog whose name is
\* not in EXCLUDED_TABLES
prepare_table_names(cat) ==
    SelectSeq(cat.tables, LAMBDA t : t \notin cat.EXCLUDED_TABLES)

\* every catalog record of the loaded tables becomes a column
prepare_chunk_tables_unfiltered(cat) ==
    LET names == Range(prepare_table_names(cat))
    IN  SelectSeq(cat.cols, LAMBDA c : c.t \in names)

\* DstDatabase._prepare_chunk_tables: the catalog records of the loaded
\* tables, but for those whose constraint table is in EXCLUDED_TABLES
prepare_chunk_tables(cat) ==
    LET names == Range(prepare_table_names(cat))
    IN  SelectSeq(cat.cols, LAMBDA c : /\ c.t \in names
                                       /\ constraint_table(c) \notin cat.EXCLUDED_TABLES)

\* DstDatabase.prepare_structure: the schema model of a catalog
prepare_structure(cat) ==
    [cat EXCEPT !.tables = prepare_table_names(cat), !.cols = prepare_chunk_tables(cat)]

\* DstDatabase.tables and their columns, for each catalog
Loaded == [i \in DOMAIN Scenarios |-> prepare_structure(Scenarios[i])]

Sc == db

Tables == Range(Sc.tables)

\* -------------------------------------------------- schema model (DBTable)

\* DBTable.columns.values(), in insertion order
columns(t) == SelectSeq(Sc.cols, LAMBDA c : c.t = t)

get_column_by_name(t, name) ==
    LET s == SelectSeq(columns(t), LAMBDA c : c.c = name) IN s[1]

primary_key(t) ==
    LET s == SelectSeq(columns(t), LAMBDA c : is_primary_key(c) /\ c.ty # "date") IN s[1]

\* DBTable._key_column, set by append_column to the first key column
with_key_column(t) == SelectSeq(columns(t), is_key_column) # <<>>

key_column(t) == SelectSeq(columns(t), is_key_column)[1]

foreign_keys_columns(t) == SelectSeq(columns(t), is_foreign_key)

self_fk_columns(t) == SelectSeq(columns(t), is_self_fk)

not_self_fk_columns(t) ==
    SelectSeq(columns(t), LAMBDA c : is_foreign_key(c) /\ ~is_self_fk(c))

unique_fk_columns(t) ==
    SelectSeq(not_self_fk_columns(t), LAMBDA c : is_foreign_key(c) /\ is_unique(c))

fk_columns_with_key_column(t) ==
    SelectSeq(not_self_fk_columns(t), LAMBDA c : with_key_column(constraint_table(c)))

\* list(set(...).intersection(...)): no order is kept; here the column order
unique_fk_columns_with_key_column(t) ==
    SelectSeq(unique_fk_columns(t), LAMBDA c : c \in Range(fk_columns_with_key_column(t)))

\* the column is appended once for every FK of its referent into a
\* key-column table
ViaKeyColumn(c) ==
    LET hits == SelectSeq(not_self_fk_columns(constraint_table(c)),
                          LAMBDA d : with_key_column(constraint_table(d)))
    IN  [i \in 1 .. Len(hits) |-> c]

fk_columns_tables_with_fk_columns_with_key_column(t) ==
    FlatMap(ViaKeyColumn, not_self_fk_columns(t))

unique_fk_columns_tables_with_fk_columns_with_key_column(t) ==
    FlatMap(ViaKeyColumn, unique_fk_columns(t))

highest_priority_fk_columns(t) ==
    IF unique_fk_columns_with_key_column(t) # <<>>
    THEN unique_fk_columns_with_key_column(t)
    ELSE IF unique_fk_columns_tables_with_fk_columns_with_key_column(t) # <<>>
            \/ fk_columns_with_key_column(t) # <<>>
    THEN unique_fk_columns_tables_with_fk_columns_with_key_column(t)
         \o fk_columns_with_key_column(t)
    ELSE IF fk_columns_tables_with_fk_columns_with_key_column(t) # <<>>
    THEN fk_columns_tables_with_fk_columns_with_key_column(t)
    ELSE not_self_fk_columns(t)

\* DBTable.revert_foreign_tables: the referring tables in the order in which
\* append_column registered them, and the referring columns of each
revert_foreign_tables(t) ==
    Distinct([i \in 1 .. Len(SelectSeq(Sc.cols, LAMBDA c : is_foreign_key(c) /\ c.ref = t))
              |-> SelectSeq(Sc.cols, LAMBDA c : is_foreign_key(c) /\ c.ref = t)[i].t])

revert_columns(t, rt) ==
    SelectSeq(columns(rt), LAMBDA c : is_foreign_key(c) /\ c.ref = t)

is_full_prepared(t) == Cardinality(need[t]) >= full_count[t] - inaccuracy_count

\* DstDatabase.tables_without_generics and tables_with_key_column
tables_without_generics ==
    SelectSeq(Sc.tables, LAMBDA t : t \notin Sc.TABLES_WITH_GENERIC_FOREIGN_KEY)

tables_with_key_column == SelectSeq(tables_without_generics, with_key_column)


\* -------------------------------------------- SQL builder (SQLRepository)

\* one entry of where_conditions_columns: a column name and the allowed values
Where(c, ids) == [c |-> c, ids |-> ids]

\* the WHERE fragments of one column: one per chunk of its values, either
\* 'c in (ids)' (is_revert) or '(c in (ids) or c isnull)'; 'c isnull' when
\* there are no values
WhereFragments(w, is_revert) ==
    IF w.ids # {}
    THEN LET chunks == make_chunks(SetToSeq(w.ids), chunk_size)
         IN  [i \in 1 .. Len(chunks) |->
                [c |-> w.c, ids |-> Range(chunks[i]),
                 mode |-> IF is_revert THEN "in" ELSE "in_or_null"]]
    ELSE << [c |-> w.c, ids |-> {}, mode |-> "isnull"] >>

\* Combine without the deep copies of the combinations so far: only the first
\* fragment of the next column extends them
CombineFirst(combos, fragments) ==
    IF fragments = <<>> THEN <<>>
    ELSE [i \in 1 .. Len(combos) |-> Append(combos[i], Head(fragments))]

\* every combination so far, extended by each fragment of the next column
RECURSIVE Combine(_, _)
Combine(combos, fragments) ==
    IF fragments = <<>> THEN <<>>
    ELSE [i \in 1 .. Len(combos) |-> Append(combos[i], Head(fragments))]
         \o Combine(combos, Tail(fragments))

RECURSIVE Combinations(_)
Combinations(multiple) ==
    IF Len(multiple) = 1 THEN [i \in 1 .. Len(multiple[1]) |-> <<multiple[1][i]>>]
    ELSE Combine(Combinations(Take(multiple, Len(multiple) - 1)), multiple[Len(multiple)])

\* where_conditions_combinations of get_table_column_values_sql
where_conditions_combinations(where, is_revert) ==
    LET used == SelectSeq(where, LAMBDA w : w.c \notin KEY_COLUMN_NAMES)
        conds == [i \in 1 .. Len(used) |-> WhereFragments(used[i], is_revert)]
        single == SelectSeq(conds, LAMBDA l : Len(l) = 1)
        single_values == [i \in 1 .. Len(single) |-> single[i][1]]
        multiple == SelectSeq(conds, LAMBDA l : Len(l) > 1)
    IN  IF conds = <<>> THEN <<>>
        ELSE IF Len(single) = Len(conds) THEN <<single_values>>
        ELSE [i \in 1 .. Len(Combinations(multiple)) |->
                Combinations(multiple)[i] \o single_values]

\* _select_table_column_values_part_sql: the statement, by its parts.  The
\* key-column predicate is a function of the table and the tenant set, both
\* fixed in a run, so two statements are the same string exactly when these
\* parts are equal.
Query(t, col, pks, conds) == [tbl |-> t, col |-> col.c, pk |-> pks, conds |-> conds]

get_table_column_values_sql(t, col, pks, where, is_revert) ==
    LET combos == where_conditions_combinations(where, is_revert)
    IN  IF combos # <<>>
        THEN [i \in 1 .. Len(combos) |-> Query(t, col, pks, combos[i])]
        ELSE << Query(t, col, pks, <<>>) >>

\* ----------------------------------------------------------- the source

FragmentHolds(row, f) ==
    CASE f.mode = "in"         -> row[f.c] \in f.ids
      [] f.mode = "in_or_null" -> row[f.c] \in f.ids \/ row[f.c] = NULL
      [] f.mode = "isnull"     -> row[f.c] = NULL

\* PostgreSQL's reading of the WHERE clause built by
\* _select_table_column_values_part_sql: the fragments, the primary-key
\* restriction and 'key in (tenants)' joined by 'and', then 'or key isnull',
\* which binds weaker than the 'and's
WhereHolds(q, row) ==
    LET conj == /\ \A i \in DOMAIN q.conds : FragmentHolds(row, q.conds[i])
                /\ q.pk # {} => row[primary_key(q.tbl).c] \in q.pk
    IN  IF with_key_column(q.tbl) /\ tenants # {}
        THEN \/ conj /\ row[key_column(q.tbl).c] \in tenants
             \/ row[key_column(q.tbl).c] = NULL
        ELSE conj

\* connection.fetch and the filter of _get_table_column_values_part: the
\* first column of every selected row, NULLs dropped
Fetch(q) == {row[q.col] : row \in {r \in Sc.rows[q.tbl] : WhereHolds(q, r)}} \ {NULL}


\* ------------------------------------------------- tasks and the event loop

NoCol == Col(NoTable, "-", "-", NoTable, {})

\* the frame of one coroutine call: its function, its position and its
\* arguments and locals.  pks holds a set of ids passed by value; live names
\* the table whose need_transfer_pks object was passed instead
Frame0 ==
    [ fn |-> "-", pc |-> "start", tbl |-> NoTable, rt |-> NoTable, col |-> NoCol,
      pks |-> {}, live |-> NoTable, stk |-> 0, cpy |-> 0, sqls |-> <<>>, acc |-> {},
      res |-> {}, flag |-> FALSE, todo |-> <<>> ]

\* an asyncio.Task: the stack of coroutine frames it is running (the first
\* is the innermost), its state, the task that created it, the list it was
\* created in (grp), the state of the done-callback of asyncio.wait (cb) and,
\* while it waits, the number of awaited tasks still to complete
NewTask(frame, parent, grp) ==
    [ frames |-> <<frame>>, st |-> "ready", parent |-> parent, grp |-> grp,
      cb |-> "none", waitN |-> 0 ]

Top == tasks[running].frames[1]

At(fn, pc) ==
    /\ running # 0
    /\ tasks[running].frames # <<>>
    /\ Top.fn = fn
    /\ Top.pc = pc

\* the frames of the running task with the innermost replaced
WithTop(f) == <<f>> \o Tail(tasks[running].frames)

\* the innermost frame returns to its caller
Returned == Tail(tasks[running].frames)

\* a coroutine is awaited directly: its frame runs on top of the caller's
Call(callee, caller) == <<callee, caller>> \o Tail(tasks[running].frames)

Steps(from, n) == [i \in 1 .. n |-> <<"step", from + i>>]

\* the end of a task: the done-callback registered by asyncio.wait, if any,
\* is scheduled
Finish(ts, q, me) ==
    /\ tasks' = [ts EXCEPT ![me].st = "done", ![me].frames = <<>>,
                           ![me].cb = IF @ = "reg" THEN "sched" ELSE @]
    /\ readyq' = IF ts[me].cb = "reg" THEN Append(q, <<"done", me>>) ELSE q
    /\ running' = 0

\* await asyncio.wait(list g of the tasks created by me): a done-callback is
\* added to each of them (one that is already done schedules it at once) and
\* the caller is suspended
WaitOn(ts, q, me, g) ==
    LET kids == {c \in DOMAIN ts : ts[c].parent = me /\ ts[c].grp = g /\ ts[c].cb = "none"}
        done == SelectSeq(SetToSeq(kids), LAMBDA c : ts[c].st = "done")
    IN  /\ tasks' = [c \in DOMAIN ts |->
                        IF c \in kids
                        THEN [ts[c] EXCEPT !.cb = IF ts[c].st = "done" THEN "sched" ELSE "reg"]
                        ELSE IF c = me
                        THEN [ts[c] EXCEPT !.st = "wait", !.waitN = Cardinality(kids)]
                        ELSE ts[c]]
        /\ readyq' = q \o [i \in 1 .. Len(done) |-> <<"done", done[i]>>]
        /\ running' = 0

\* one uninterrupted piece of the running task: its frames become fs, the
\* coroutines kids1 and kids2 are wrapped in tasks (asyncio.create_task, in
\* this order), and the task goes on (w = 0), ends (no frame is left) or
\* awaits asyncio.wait of list w
Sched(fs, kids1, kids2, w) ==
    LET me == running
        n == Len(tasks)
        ts == [tasks EXCEPT ![me].frames = fs]
                \o [i \in 1 .. Len(kids1) |-> NewTask(kids1[i], me, 1)]
                \o [i \in 1 .. Len(kids2) |-> NewTask(kids2[i], me, 2)]
        q == readyq \o Steps(n, Len(kids1) + Len(kids2))
    IN  IF fs = <<>> THEN Finish(ts, q, me)
        ELSE IF w = 0 THEN tasks' = ts /\ readyq' = q /\ UNCHANGED running
        ELSE WaitOn(ts, q, me, w)

\* the loop runs the next scheduled callback: a step of a task
Dispatch ==
    /\ running = 0
    /\ readyq # <<>>
    /\ Head(readyq)[1] = "step"
    /\ running' = Head(readyq)[2]
    /\ tasks' = [tasks EXCEPT ![Head(readyq)[2]].st = "run"]
    /\ readyq' = Tail(readyq)
    /\ UNCHANGED <<arg, out, loading, pool_size, scn, db, tenants, full_count, chunk_size, dedup, need, checked, ready, hashes,
                   stacks, errors, failed, run, first_need, hist>>

\* the loop runs the next scheduled callback: _on_completion of asyncio.wait,
\* which wakes the waiting task when the last awaited task is done
OnCompletion ==
    /\ running = 0
    /\ readyq # <<>>
    /\ Head(readyq)[1] = "done"
    /\ LET c == Head(readyq)[2]
           p == tasks[c].parent
       IN  /\ tasks' = [tasks EXCEPT ![c].cb = "fired",
                                     ![p].waitN = @ - 1,
                                     ![p].st = IF tasks[p].waitN = 1 THEN "ready" ELSE @]
           /\ readyq' = IF tasks[p].waitN = 1
                        THEN Append(Tail(readyq), <<"step", p>>)
                        ELSE Tail(readyq)
    /\ UNCHANGED <<arg, out, loading, pool_size, scn, db, tenants, full_count, chunk_size, dedup, need, checked, ready, hashes,
                   running, stacks, errors, failed, run, first_need, hist>>

\* --------------------------------------- Query Runner (BaseCollector)

\* an assignment in place of set.update: the set is replaced
update_need_transfer_pks_replacing(n, t, pks) == [n EXCEPT ![t] = pks]

update_need_transfer_pks(n, t, pks) == [n EXCEPT ![t] = @ \cup pks]

\* _get_table_column_values up to its loop: no statement at all for a column
\* without a constraint table or with an excluded one, else the statements of
\* the SQL builder
GetValues(t, col, pks, where, is_revert) ==
    [Frame0 EXCEPT !.fn = "gv",
                   !.sqls = IF \/ constraint_table(col) = NoTable
                               \/ constraint_table(col) \in Sc.EXCLUDED_TABLES
                            THEN <<>>
                            ELSE get_table_column_values_sql(t, col, pks, where, is_revert)]

\* the loop of _get_table_column_values is over: the set of the collected
\* values is returned
GvReturn ==
    /\ At("gv", "start")
    /\ Top.sqls = <<>>
    /\ LET caller == tasks[running].frames[2]
       IN  Sched(<<[caller EXCEPT !.res = Top.acc]>> \o Tail(Tail(tasks[running].frames)),
                 <<>>, <<>>, 0)
    /\ UNCHANGED <<arg, out, loading, pool_size, scn, db, tenants, full_count, chunk_size, dedup, need, checked, ready, hashes,
                   stacks, errors, failed, run, first_need, hist>>

\* a statement is dropped whether or not its hash is in QUERY_HASHES
GvSkipUnseen ==
    /\ At("gv", "start")
    /\ Top.sqls # <<>>
    /\ dedup
    /\ Sched(WithTop([Top EXCEPT !.sqls = Tail(@)]), <<>>, <<>>, 0)
    /\ UNCHANGED <<arg, out, loading, pool_size, scn, db, tenants, full_count, chunk_size, dedup, need, checked, ready, hashes,
                   stacks, errors, failed, run, first_need, hist>>

\* the hash of the next statement is in QUERY_HASHES: it is not executed
GvSkip ==
    /\ At("gv", "start")
    /\ Top.sqls # <<>>
    /\ dedup
    /\ Head(Top.sqls) \in hashes
    /\ Sched(WithTop([Top EXCEPT !.sqls = Tail(@)]), <<>>, <<>>, 0)
    /\ UNCHANGED <<arg, out, loading, pool_size, scn, db, tenants, full_count, chunk_size, dedup, need, checked, ready, hashes,
                   stacks, errors, failed, run, first_need, hist>>

\* the hash is added and _get_table_column_values_part awaits the pool and
\* the fetch
\* the statement goes to the source: the history keeps the statements the
\* process has executed and whether one of them was executed before
Executed(h, q) == [h EXCEPT !.sent = @ \cup {q}, !.twice = @ \/ q \in h.sent]

\* the statement is executed without its hash being added to QUERY_HASHES
GvIssueUnrecorded ==
    /\ At("gv", "start")
    /\ Top.sqls # <<>>
    /\ ~dedup \/ Head(Top.sqls) \notin hashes
    /\ hist' = Executed(hist, Head(Top.sqls))
    /\ tasks' = [tasks EXCEPT ![running].frames = WithTop([Top EXCEPT !.pc = "fetch"]),
                              ![running].st = "io"]
    /\ running' = 0
    /\ UNCHANGED <<arg, out, loading, pool_size, scn, db, tenants, full_count, chunk_size, dedup, need, checked, ready, readyq,
                   hashes, stacks, errors, failed, run, first_need>>

\* the tasks that hold a connection of the source pool: those inside
\* connection.fetch
Held == {t \in DOMAIN tasks : tasks[t].st = "io"}

\* the statement is executed on a connection taken although the pool has
\* none left
GvIssueUnpooled ==
    /\ At("gv", "start")
    /\ Top.sqls # <<>>
    /\ ~dedup \/ Head(Top.sqls) \notin hashes
    /\ hashes' = hashes \cup {Head(Top.sqls)}
    /\ hist' = Executed(hist, Head(Top.sqls))
    /\ tasks' = [tasks EXCEPT ![running].frames = WithTop([Top EXCEPT !.pc = "fetch"]),
                              ![running].st = "io"]
    /\ running' = 0
    /\ UNCHANGED <<arg, out, loading, pool_size, scn, db, tenants, full_count, chunk_size,
                   dedup, need, checked, ready, readyq, stacks, errors, failed, run,
                   first_need>>

\* the hash is recorded, then _get_table_column_values_part asks the pool
\* for a connection: with one free the fetch starts, otherwise the task
\* waits in pool.acquire()
GvIssue ==
    /\ At("gv", "start")
    /\ Top.sqls # <<>>
    /\ ~dedup \/ Head(Top.sqls) \notin hashes
    /\ hashes' = hashes \cup {Head(Top.sqls)}
    /\ hist' = Executed(hist, Head(Top.sqls))
    /\ tasks' = [tasks EXCEPT ![running].frames = WithTop([Top EXCEPT !.pc = "fetch"]),
                              ![running].st = IF Cardinality(Held) < pool_size
                                              THEN "io" ELSE "pool"]
    /\ running' = 0
    /\ UNCHANGED <<arg, out, loading, pool_size, scn, db, tenants, full_count, chunk_size, dedup, need, checked, ready, readyq,
                   stacks, errors, failed, run, first_need>>

Resume(t, f) ==
    /\ tasks' = [tasks EXCEPT ![t].frames = <<f>> \o Tail(@), ![t].st = "ready"]
    /\ readyq' = Append(readyq, <<"step", t>>)

\* a connection has been released: pool.acquire() of the waiting task t
\* returns it and the fetch of t starts
Acquire(t) ==
    /\ running = 0
    /\ tasks[t].st = "pool"
    /\ Cardinality(Held) < pool_size
    /\ tasks' = [tasks EXCEPT ![t].st = "io"]
    /\ UNCHANGED <<arg, out, loading, pool_size, scn, db, tenants, full_count, chunk_size,
                   dedup, need, checked, ready, hashes, readyq, running, stacks, errors,
                   failed, run, first_need, hist>>

\* the fetch of task t returns its rows; leaving the 'async with' block
\* gives the connection back
FetchDone(t) ==
    /\ running = 0
    /\ tasks[t].st = "io"
    /\ LET f == tasks[t].frames[1]
       IN  Resume(t, [f EXCEPT !.pc = "start", !.sqls = Tail(@),
                               !.acc = @ \cup Fetch(Head(f.sqls))])
    /\ UNCHANGED <<arg, out, loading, pool_size, scn, db, tenants, full_count, chunk_size, dedup, need, checked, ready, hashes,
                   running, stacks, errors, failed, run, first_need, hist>>

\* the history keeps the statements whose fetch has ended in an error
Broken(h, q) == [h EXCEPT !.broken = @ \cup {q}]

\* the tables a forward pass has reached as the referent of a foreign key in
\* this run
Visited(h, t) == [h EXCEPT !.visited = @ \cup {t}]

\* the handler of the two errors takes the hash of the failed statement out
\* of QUERY_HASHES again
FetchProbeErrorForget(t) ==
    /\ running = 0
    /\ tasks[t].st = "io"
    /\ errors < MaxErrors
    /\ errors' = errors + 1
    /\ hist' = Broken(hist, Head(tasks[t].frames[1].sqls))
    /\ hashes' = hashes \ {Head(tasks[t].frames[1].sqls)}
    /\ LET f == tasks[t].frames[1]
       IN  Resume(t, [f EXCEPT !.pc = "start", !.sqls = Tail(@)])
    /\ UNCHANGED <<arg, out, loading, pool_size, scn, db, tenants, full_count, chunk_size,
                   dedup, need, checked, ready, running, stacks, failed, run, first_need>>

\* the fetch of task t raises PostgresSyntaxError or UndefinedColumnError:
\* the part is empty
FetchProbeError(t) ==
    /\ running = 0
    /\ tasks[t].st = "io"
    /\ errors < MaxErrors
    /\ errors' = errors + 1
    /\ hist' = Broken(hist, Head(tasks[t].frames[1].sqls))
    /\ LET f == tasks[t].frames[1]
       IN  Resume(t, [f EXCEPT !.pc = "start", !.sqls = Tail(@)])
    /\ UNCHANGED <<arg, out, loading, pool_size, scn, db, tenants, full_count, chunk_size, dedup, need, checked, ready, hashes,
                   running, stacks, failed, run, first_need>>

\* the fetch (or the pool) of task t raises any other error
FetchOtherError(t) ==
    /\ running = 0
    /\ tasks[t].st = "io"
    /\ errors < MaxErrors
    /\ errors' = errors + 1
    /\ hist' = Broken(hist, Head(tasks[t].frames[1].sqls))
    /\ Resume(t, [tasks[t].frames[1] EXCEPT !.pc = "raise"])
    /\ UNCHANGED <<arg, out, loading, pool_size, scn, db, tenants, full_count, chunk_size, dedup, need, checked, ready, hashes,
                   running, stacks, failed, run, first_need>>


\* an error other than the two handled ones leaves _get_table_column_values
\* and every coroutine awaiting it directly: in a task created by
\* asyncio.create_task it is stored in the task, in the orchestrator's own
\* task it leaves collect()
GvRaise ==
    /\ At("gv", "raise")
    /\ IF running = 1
       THEN /\ failed' = TRUE
            /\ tasks' = [tasks EXCEPT ![1].st = "done", ![1].frames =
                            <<[Frame0 EXCEPT !.fn = "main", !.pc = "aborted"]>>]
            /\ readyq' = readyq
            /\ running' = 0
            /\ hist' = hist
       ELSE /\ Finish(tasks, readyq, running)
            /\ hist' = [hist EXCEPT !.raised = TRUE]
            /\ failed' = failed
    /\ UNCHANGED <<inputs, need, checked, ready, hashes, stacks, errors, run, first_need>>

\* ------------------------------------------------------- the orchestrator

F(fn) == [Frame0 EXCEPT !.fn = fn]

Main == tasks[1].frames[Len(tasks[1].frames)]

stage == Main.pc

\* the promotion that ends collect: every checked table among ts is marked
\* ready
Promote(r, c, ts) == [t \in DOMAIN r |-> r[t] \/ (t \in ts /\ c[t])]

\* the tasks of a finished stage and their stack_tables sets are garbage
Collected(ts) ==
    IF \A i \in 2 .. Len(ts) : ts[i].st = "done" THEN <<ts[1]>> ELSE ts

\* ------------------------------------------------------ KeyTableCollector

\* _prepare_key_table_values marking the key table ready without writing the
\* tenant set into it
MainKeyUnseeded ==
    /\ At("main", "key")
    /\ ready' = [ready EXCEPT ![KEY_TABLE_NAME] = TRUE]
    /\ Sched(WithTop([Top EXCEPT !.pc = "full"]), <<>>, <<>>, 0)
    /\ UNCHANGED <<inputs, observed, need, checked, hashes, stacks>>

\* KeyTableCollector.collect: _prepare_key_table_values
MainKey ==
    /\ At("main", "key")
    /\ need' = update_need_transfer_pks(need, KEY_TABLE_NAME, tenants)
    /\ ready' = [ready EXCEPT ![KEY_TABLE_NAME] = TRUE]
    /\ Sched(WithTop([Top EXCEPT !.pc = "full"]), <<>>, <<>>, 0)
    /\ UNCHANGED <<inputs, observed, checked, hashes, stacks>>

\* -------------------------------------------------- FullTransferCollector

FullTransferTables == SelectSeq(Sc.tables, LAMBDA t : t \in Sc.FULL_TRANSFER_TABLES)

\* FullTransferCollector.collect up to its asyncio.wait
MainFull ==
    /\ At("main", "full")
    /\ LET kids == [i \in 1 .. Len(FullTransferTables) |->
                        [F("ft") EXCEPT !.tbl = FullTransferTables[i]]]
       IN  Sched(WithTop([Top EXCEPT !.pc = "full_join"]), kids, <<>>,
                 IF kids # <<>> THEN 1 ELSE 0)
    /\ UNCHANGED <<inputs, observed, need, checked, ready, hashes, stacks>>

\* the rest of FullTransferCollector.collect: the promotion of the
\* full-transfer tables
MainFullJoin ==
    /\ At("main", "full_join")
    /\ ready' = Promote(ready, checked, Range(FullTransferTables))
    /\ tasks' = Collected([tasks EXCEPT ![1].frames = WithTop([Top EXCEPT !.pc = "keycol"])])
    /\ stacks' = <<>>
    /\ UNCHANGED <<inputs, observed, need, checked, hashes, readyq, running>>

\* _prepare_full_transfer_table up to the query
FTStart ==
    /\ At("ft", "start")
    /\ IF ready[Top.tbl]
       THEN Sched(Returned, <<>>, <<>>, 0)
       ELSE Sched(Call(GetValues(Top.tbl, primary_key(Top.tbl), {}, <<>>, FALSE),
                       [Top EXCEPT !.pc = "got"]), <<>>, <<>>, 0)
    /\ UNCHANGED <<inputs, observed, need, checked, ready, hashes, stacks>>

\* _prepare_full_transfer_table after the query
FTGot ==
    /\ At("ft", "got")
    /\ checked' = [checked EXCEPT ![Top.tbl] = TRUE]
    /\ need' = update_need_transfer_pks(need, Top.tbl, Top.res)
    /\ Sched(Returned, <<>>, <<>>, 0)
    /\ UNCHANGED <<inputs, observed, ready, hashes, stacks>>


\* ----------------------------------- TablesWithKeyColumnSiblingsCollector

\* the set passed as need_transfer_pks: the object of a table, read when it
\* is used, or a set of its own
Pks(f) == IF f.live # NoTable THEN need[f.live] ELSE f.pks

Chunks(S) == make_chunks(SetToSeq(S), chunk_size)

\* collect up to its asyncio.wait
MainKeycol ==
    /\ At("main", "keycol")
    /\ LET kids == [i \in 1 .. Len(tables_with_key_column) |->
                        [F("ptk") EXCEPT !.tbl = tables_with_key_column[i]]]
       IN  Sched(WithTop([Top EXCEPT !.pc = "keycol_join"]), kids, <<>>,
                 IF kids # <<>> THEN 1 ELSE 0)
    /\ UNCHANGED <<inputs, observed, need, checked, ready, hashes, stacks>>

\* collect returning after its asyncio.wait without the promotion
MainKeycolJoinUnpromoted ==
    /\ At("main", "keycol_join")
    /\ ready' = ready
    /\ tasks' = Collected([tasks EXCEPT ![1].frames = WithTop([Top EXCEPT !.pc = "generic"])])
    /\ stacks' = <<>>
    /\ UNCHANGED <<inputs, observed, need, checked, hashes, readyq, running>>

\* the rest of collect, then the promotion
MainKeycolJoin ==
    /\ At("main", "keycol_join")
    /\ ready' = Promote(ready, checked, Tables)
    /\ tasks' = Collected([tasks EXCEPT ![1].frames = WithTop([Top EXCEPT !.pc = "generic"])])
    /\ stacks' = <<>>
    /\ UNCHANGED <<inputs, observed, need, checked, hashes, readyq, running>>

\* _prepare_tables_with_key_column up to the query
PTKStart ==
    /\ At("ptk", "start")
    /\ IF ready[Top.tbl]
       THEN Sched(Returned, <<>>, <<>>, 0)
       ELSE Sched(Call(GetValues(Top.tbl, primary_key(Top.tbl), {}, <<>>, FALSE),
                       [Top EXCEPT !.pc = "got"]), <<>>, <<>>, 0)
    /\ UNCHANGED <<inputs, observed, need, checked, ready, hashes, stacks>>

\* _prepare_tables_with_key_column from the query to the first asyncio.wait
PTKGot ==
    /\ At("ptk", "got")
    /\ checked' = [checked EXCEPT ![Top.tbl] = TRUE]
    /\ need' = update_need_transfer_pks(need, Top.tbl, Top.res)
    /\ IF Top.res # {}
       THEN Sched(WithTop([Top EXCEPT !.pc = "w1"]),
                  <<[F("drt") EXCEPT !.tbl = Top.tbl, !.pks = Top.res]>>, <<>>, 1)
       ELSE Sched(Returned, <<>>, <<>>, 0)
    /\ UNCHANGED <<inputs, observed, ready, hashes, stacks>>

\* _prepare_tables_with_key_column creating the task of the reverse pass
\* without awaiting it
PTKW1Unjoined ==
    /\ At("ptk", "w1")
    /\ Sched(WithTop([Top EXCEPT !.pc = "w2"]), <<[F("rrt") EXCEPT !.tbl = Top.tbl]>>, <<>>, 0)
    /\ UNCHANGED <<inputs, observed, need, checked, ready, hashes, stacks>>

\* _prepare_tables_with_key_column: the second asyncio.wait
PTKW1 ==
    /\ At("ptk", "w1")
    /\ Sched(WithTop([Top EXCEPT !.pc = "w2"]), <<[F("rrt") EXCEPT !.tbl = Top.tbl]>>, <<>>, 1)
    /\ UNCHANGED <<inputs, observed, need, checked, ready, hashes, stacks>>

PTKW2 ==
    /\ At("ptk", "w2")
    /\ Sched(Returned, <<>>, <<>>, 0)
    /\ UNCHANGED <<inputs, observed, need, checked, ready, hashes, stacks>>

\* the condition of the unused _direct_recursively_preparing_table_chunk: the
\* referent is looked up even when it is ready
ForwardReferentUnready(c, visited) ==
    ~(\/ with_key_column(constraint_table(c))
      \/ constraint_table(c) \in visited)

\* the condition under which the forward pass looks up the referent of a
\* column that is not self-referencing
ForwardReferent(c, visited) ==
    ~(\/ with_key_column(constraint_table(c))
      \/ constraint_table(c) \in visited
      \/ ready[constraint_table(c)])

\* _direct_recursively_preparing_table up to its first asyncio.wait
DRTStart ==
    /\ At("drt", "start")
    /\ LET f == Top
           sid == IF f.stk = 0 THEN Len(stacks) + 1 ELSE f.stk
           st0 == IF f.stk = 0 THEN Append(stacks, {}) ELSE stacks
           st1 == [st0 EXCEPT ![sid] = @ \cup {f.tbl}]
           c1 == SelectSeq(not_self_fk_columns(f.tbl),
                           LAMBDA c : ForwardReferent(c, st1[sid]))
           c2 == SelectSeq(self_fk_columns(f.tbl), LAMBDA c : ~ready[constraint_table(c)])
           kids1 == [i \in 1 .. Len(c1) |->
                        [F("dft") EXCEPT !.tbl = f.tbl, !.col = c1[i], !.pks = f.pks,
                                         !.live = f.live, !.stk = sid]]
           kids2 == [i \in 1 .. Len(c2) |->
                        [F("dft") EXCEPT !.tbl = f.tbl, !.col = c2[i], !.pks = f.pks,
                                         !.live = f.live, !.stk = Len(st1) + i]]
       IN  IF f.tbl \in st0[sid]
           THEN /\ Sched(Returned, <<>>, <<>>, 0)
                /\ UNCHANGED <<stacks, checked>>
           ELSE /\ stacks' = st1 \o [i \in 1 .. Len(c2) |-> st1[sid] \ {f.tbl}]
                /\ IF c1 = <<>> /\ c2 = <<>>
                   THEN /\ checked' = [checked EXCEPT ![f.tbl] = TRUE]
                        /\ Sched(Returned, <<>>, <<>>, 0)
                   ELSE /\ checked' = checked
                        /\ Sched(WithTop([f EXCEPT !.pc = IF c1 # <<>> THEN "w1" ELSE "w2",
                                                   !.flag = c2 # <<>>, !.stk = sid]),
                                 kids1, kids2, IF c1 # <<>> THEN 1 ELSE 2)
    /\ UNCHANGED <<inputs, observed, need, ready, hashes>>

\* _direct_recursively_preparing_table returning after its first list, without
\* awaiting the list of the self-referencing columns
DRTW1Unjoined ==
    /\ At("drt", "w1")
    /\ checked' = [checked EXCEPT ![Top.tbl] = TRUE]
    /\ Sched(Returned, <<>>, <<>>, 0)
    /\ UNCHANGED <<inputs, observed, need, ready, hashes, stacks>>

\* after the first list: the list of the self-referencing columns, if any
DRTW1 ==
    /\ At("drt", "w1")
    /\ IF Top.flag
       THEN /\ Sched(WithTop([Top EXCEPT !.pc = "w2"]), <<>>, <<>>, 2)
            /\ checked' = checked
       ELSE /\ checked' = [checked EXCEPT ![Top.tbl] = TRUE]
            /\ Sched(Returned, <<>>, <<>>, 0)
    /\ UNCHANGED <<inputs, observed, need, ready, hashes, stacks>>

DRTW2 ==
    /\ At("drt", "w2")
    /\ checked' = [checked EXCEPT ![Top.tbl] = TRUE]
    /\ Sched(Returned, <<>>, <<>>, 0)
    /\ UNCHANGED <<inputs, observed, need, ready, hashes, stacks>>

\* _direct_recursively_preparing_foreign_table
DFTStart ==
    /\ At("dft", "start")
    /\ LET chunks == Chunks(Pks(Top))
           kids == [i \in 1 .. Len(chunks) |->
                        [F("dfc") EXCEPT !.tbl = Top.tbl, !.col = Top.col,
                                         !.pks = Range(chunks[i]), !.stk = Top.stk]]
       IN  IF kids # <<>>
           THEN Sched(WithTop([Top EXCEPT !.pc = "w"]), kids, <<>>, 1)
           ELSE Sched(Returned, <<>>, <<>>, 0)
    /\ UNCHANGED <<inputs, observed, need, checked, ready, hashes, stacks>>

DFTW ==
    /\ At("dft", "w")
    /\ Sched(Returned, <<>>, <<>>, 0)
    /\ UNCHANGED <<inputs, observed, need, checked, ready, hashes, stacks>>

\* _direct_recursively_preparing_foreign_table_chunk up to the query
DFCStart ==
    /\ At("dfc", "start")
    /\ checked' = [checked EXCEPT ![constraint_table(Top.col)] = TRUE]
    /\ hist' = Visited(hist, constraint_table(Top.col))
    /\ LET pk == IF with_key_column(Top.tbl) \/ is_full_prepared(Top.tbl) THEN {} ELSE Top.pks
       IN  Sched(Call(GetValues(Top.tbl, Top.col, pk, <<>>, FALSE), [Top EXCEPT !.pc = "got"]),
                 <<>>, <<>>, 0)
    /\ UNCHANGED <<inputs, errors, failed, run, first_need, need, ready, hashes, stacks>>

\* _direct_recursively_preparing_foreign_table_chunk after the query
DFCGot ==
    /\ At("dfc", "got")
    /\ LET foreign_table == constraint_table(Top.col)
           difference == Top.res \ need[foreign_table]
       IN  IF difference # {}
           THEN /\ need' = update_need_transfer_pks(need, foreign_table, difference)
                /\ Sched(WithTop([Top EXCEPT !.pc = "w"]),
                         <<[F("drt") EXCEPT !.tbl = foreign_table, !.pks = difference,
                                            !.stk = Top.stk]>>, <<>>, 1)
           ELSE /\ need' = need
                /\ Sched(Returned, <<>>, <<>>, 0)
    /\ UNCHANGED <<inputs, observed, checked, ready, hashes, stacks>>

DFCW ==
    /\ At("dfc", "w")
    /\ Sched(Returned, <<>>, <<>>, 0)
    /\ UNCHANGED <<inputs, observed, need, checked, ready, hashes, stacks>>


\* _revert_recursively_preparing_table up to its asyncio.wait
RRTStart ==
    /\ At("rrt", "start")
    /\ LET f == Top
           sid == IF f.stk = 0 THEN Len(stacks) + 1 ELSE f.stk
           st0 == IF f.stk = 0 THEN Append(stacks, {}) ELSE stacks
           st1 == [st0 EXCEPT ![sid] = @ \cup {f.tbl}]
           rts == SelectSeq(revert_foreign_tables(f.tbl),
                            LAMBDA r : ~(\/ with_key_column(r)
                                         \/ r = f.tbl
                                         \/ r \in st1[sid]
                                         \/ ready[r]))
           kids == [i \in 1 .. Len(rts) |->
                        [F("rrrt") EXCEPT !.tbl = rts[i], !.live = f.tbl, !.stk = sid]]
       IN  IF f.tbl \in st0[sid]
           THEN /\ Sched(Returned, <<>>, <<>>, 0)
                /\ UNCHANGED <<stacks, checked>>
           ELSE /\ stacks' = st1
                /\ IF kids = <<>>
                   THEN /\ checked' = [checked EXCEPT ![f.tbl] = TRUE]
                        /\ Sched(Returned, <<>>, <<>>, 0)
                   ELSE /\ checked' = checked
                        /\ Sched(WithTop([f EXCEPT !.pc = "w", !.stk = sid]), kids, <<>>, 1)
    /\ UNCHANGED <<inputs, observed, need, ready, hashes>>

RRTW ==
    /\ At("rrt", "w")
    /\ checked' = [checked EXCEPT ![Top.tbl] = TRUE]
    /\ Sched(Returned, <<>>, <<>>, 0)
    /\ UNCHANGED <<inputs, observed, need, ready, hashes, stacks>>

\* _revert_recursively_preparing_revert_table up to its asyncio.wait; tbl is
\* the revert table and live the table it refers to
RRRTStart ==
    /\ At("rrrt", "start")
    /\ LET cs == SelectSeq(revert_columns(Top.live, Top.tbl),
                           LAMBDA c : c \in Range(highest_priority_fk_columns(Top.tbl)))
           kids == [i \in 1 .. Len(cs) |->
                        [F("rrtc") EXCEPT !.tbl = Top.tbl, !.col = cs[i], !.live = Top.live]]
       IN  IF need[Top.live] = {}
           THEN Sched(Returned, <<>>, <<>>, 0)
           ELSE Sched(WithTop([Top EXCEPT !.pc = "w"]), kids, <<>>,
                      IF kids # <<>> THEN 1 ELSE 0)
    /\ UNCHANGED <<inputs, observed, need, checked, ready, hashes, stacks>>

\* after the columns: the copy of stack_tables is taken and the reverse pass
\* of the revert table is awaited directly
RRRTW ==
    /\ At("rrrt", "w")
    /\ IF need[Top.tbl] # {}
       THEN /\ stacks' = Append(stacks, stacks[Top.stk])
            /\ Sched(Call([F("rrt") EXCEPT !.tbl = Top.tbl, !.stk = Top.stk],
                          [Top EXCEPT !.pc = "c1", !.cpy = Len(stacks) + 1]),
                     <<>>, <<>>, 0)
       ELSE /\ stacks' = stacks
            /\ Sched(Returned, <<>>, <<>>, 0)
    /\ UNCHANGED <<inputs, observed, need, checked, ready, hashes>>

\* then the forward pass of the revert table, with its need_transfer_pks
\* object and the copy
RRRTC1 ==
    /\ At("rrrt", "c1")
    /\ Sched(Call([F("drt") EXCEPT !.tbl = Top.tbl, !.live = Top.tbl, !.stk = Top.cpy],
                  [Top EXCEPT !.pc = "c2"]), <<>>, <<>>, 0)
    /\ UNCHANGED <<inputs, observed, need, checked, ready, hashes, stacks>>

RRRTC2 ==
    /\ At("rrrt", "c2")
    /\ Sched(Returned, <<>>, <<>>, 0)
    /\ UNCHANGED <<inputs, observed, need, checked, ready, hashes, stacks>>

\* _revert_recursively_preparing_revert_table_column
RRTCStart ==
    /\ At("rrtc", "start")
    /\ LET chunks == Chunks(need[Top.live])
           kids == [i \in 1 .. Len(chunks) |->
                        [F("rrtcc") EXCEPT !.tbl = Top.tbl, !.col = Top.col,
                                           !.pks = Range(chunks[i])]]
       IN  IF kids # <<>>
           THEN Sched(WithTop([Top EXCEPT !.pc = "w"]), kids, <<>>, 1)
           ELSE Sched(Returned, <<>>, <<>>, 0)
    /\ UNCHANGED <<inputs, observed, need, checked, ready, hashes, stacks>>

RRTCW ==
    /\ At("rrtc", "w")
    /\ Sched(Returned, <<>>, <<>>, 0)
    /\ UNCHANGED <<inputs, observed, need, checked, ready, hashes, stacks>>

\* _revert_recursively_preparing_revert_table_column_chunk up to the query
\* the chunk looked up with the condition of the forward direction:
\* is_revert is not passed
RRTCCStartForward ==
    /\ At("rrtcc", "start")
    /\ Sched(Call(GetValues(Top.tbl, primary_key(Top.tbl), {},
                            <<Where(Top.col.c, Top.pks)>>, FALSE),
                  [Top EXCEPT !.pc = "got"]), <<>>, <<>>, 0)
    /\ UNCHANGED <<inputs, observed, need, checked, ready, hashes, stacks>>

RRTCCStart ==
    /\ At("rrtcc", "start")
    /\ Sched(Call(GetValues(Top.tbl, primary_key(Top.tbl), {},
                            <<Where(Top.col.c, Top.pks)>>, TRUE),
                  [Top EXCEPT !.pc = "got"]), <<>>, <<>>, 0)
    /\ UNCHANGED <<inputs, observed, need, checked, ready, hashes, stacks>>

RRTCCGot ==
    /\ At("rrtcc", "got")
    /\ need' = update_need_transfer_pks(need, Top.tbl, Top.res)
    /\ Sched(Returned, <<>>, <<>>, 0)
    /\ UNCHANGED <<inputs, observed, checked, ready, hashes, stacks>>


\* ------------------------------------------------- GenericTablesCollector

GenericTables == SelectSeq(Sc.tables, LAMBDA t : t \in Sc.TABLES_WITH_GENERIC_FOREIGN_KEY)

\* collect: the task of _collect_generic_tables_records_ids is awaited
MainGeneric ==
    /\ At("main", "generic")
    /\ Sched(WithTop([Top EXCEPT !.pc = "generic_join"]), <<F("gc")>>, <<>>, 1)
    /\ UNCHANGED <<inputs, observed, need, checked, ready, hashes, stacks>>

\* the rest of GenericTablesCollector.collect: it ends without a promotion
MainGenericJoin ==
    /\ At("main", "generic_join")
    /\ ready' = ready
    /\ tasks' = Collected([tasks EXCEPT ![1].frames = WithTop([Top EXCEPT !.pc = "sorted"])])
    /\ stacks' = <<>>
    /\ UNCHANGED <<inputs, observed, need, checked, hashes, readyq, running>>

\* _collect_generic_tables_records_ids: the task of
\* _prepare_content_type_tables is awaited
GCStart ==
    /\ At("gc", "start")
    /\ Sched(WithTop([Top EXCEPT !.pc = "mapped"]), <<F("pctt")>>, <<>>, 1)
    /\ UNCHANGED <<inputs, observed, need, checked, ready, hashes, stacks>>

\* _prepare_content_type_tables: its two catalog queries do not pass through
\* _get_table_column_values and nothing else can run during them; the map
\* they build is the scenario's content_type_table
PCTT ==
    /\ At("pctt", "start")
    /\ Sched(Returned, <<>>, <<>>, 0)
    /\ UNCHANGED <<inputs, observed, need, checked, ready, hashes, stacks>>

\* _collect_generic_tables_records_ids: one task for each generic table
GCMapped ==
    /\ At("gc", "mapped")
    /\ LET kids == [i \in 1 .. Len(GenericTables) |->
                        [F("gt") EXCEPT !.tbl = GenericTables[i]]]
       IN  IF kids # <<>>
           THEN Sched(WithTop([Top EXCEPT !.pc = "w"]), kids, <<>>, 1)
           ELSE Sched(Returned, <<>>, <<>>, 0)
    /\ UNCHANGED <<inputs, observed, need, checked, ready, hashes, stacks>>

GCW ==
    /\ At("gc", "w")
    /\ Sched(Returned, <<>>, <<>>, 0)
    /\ UNCHANGED <<inputs, observed, need, checked, ready, hashes, stacks>>

\* _prepare_generic_table_data: one task for each key of content_type_table
GTStart ==
    /\ At("gt", "start")
    /\ LET ctt == Sc.content_type_table
           kids == [i \in 1 .. Len(ctt) |->
                        [F("gd") EXCEPT !.tbl = Top.tbl, !.rt = ctt[i][1], !.pks = {ctt[i][2]}]]
       IN  IF kids # <<>>
           THEN Sched(WithTop([Top EXCEPT !.pc = "w"]), kids, <<>>, 1)
           ELSE Sched(Returned, <<>>, <<>>, 0)
    /\ UNCHANGED <<inputs, observed, need, checked, ready, hashes, stacks>>

GTW ==
    /\ At("gt", "w")
    /\ Sched(Returned, <<>>, <<>>, 0)
    /\ UNCHANGED <<inputs, observed, need, checked, ready, hashes, stacks>>

\* _prepare_content_type_generic_data up to the query; rt is the related
\* table and pks holds its content type id
GDStart ==
    /\ At("gd", "start")
    /\ IF \/ Top.rt \notin Tables
          \/ primary_key(Top.rt).ty # get_column_by_name(Top.tbl, "object_id").ty
       THEN Sched(Returned, <<>>, <<>>, 0)
       ELSE Sched(Call(GetValues(Top.tbl, primary_key(Top.tbl), {},
                                 <<Where("object_id", need[Top.rt]),
                                   Where("content_type_id", Top.pks)>>, FALSE),
                       [Top EXCEPT !.pc = "got"]), <<>>, <<>>, 0)
    /\ UNCHANGED <<inputs, observed, need, checked, ready, hashes, stacks>>

GDGot ==
    /\ At("gd", "got")
    /\ need' = update_need_transfer_pks(need, Top.tbl, Top.res)
    /\ Sched(Returned, <<>>, <<>>, 0)
    /\ UNCHANGED <<inputs, observed, checked, ready, hashes, stacks>>

\* ------------------------------------------------------ topological_sort

\* dependencies_between_models of SortedByDependencyTablesCollector.collect
PairsOf(t) ==
    [i \in 1 .. Len(not_self_fk_columns(t)) |->
        <<t, constraint_table(not_self_fk_columns(t)[i])>>]

dependencies_between_models == FlatMap(PairsOf, tables_without_generics)

Count(s, x) == Len(SelectSeq(s, LAMBDA y : y = x))

\* the arrows of h are followed without the counts: every node an arrow
\* points to is appended to the order
RelaxEager(ts, st) == [st EXCEPT !.ordered = st.ordered \o ts]

\* the arrows of h are followed: a node whose count of incoming arrows
\* reaches zero is appended to the order
RECURSIVE Relax(_, _)
Relax(ts, st) ==
    IF ts = <<>> THEN st
    ELSE LET t == Head(ts)
             n == st.num_heads[t] - 1
         IN  Relax(Tail(ts),
                   [num_heads |-> [st.num_heads EXCEPT ![t] = n],
                    ordered |-> IF n = 0 THEN Append(st.ordered, t) ELSE st.ordered])

RECURSIVE Walk(_, _, _)
Walk(pairs, i, st) ==
    IF i > Len(st.ordered) THEN st
    ELSE LET h == st.ordered[i]
             hp == SelectSeq(pairs, LAMBDA p : p[1] = h)
         IN  Walk(pairs, i + 1, Relax([j \in 1 .. Len(hp) |-> hp[j][2]], st))

topological_sort(pairs) ==
    LET hs == Distinct([i \in 1 .. Len(pairs) |-> pairs[i][1]])
        ts == [i \in 1 .. Len(pairs) |-> pairs[i][2]]
        st == Walk(pairs, 1,
                   [num_heads |-> [t \in Range(ts) |-> Count(ts, t)],
                    ordered |-> SelectSeq(hs, LAMBDA h : h \notin Range(ts))])
    IN  [sorted |-> st.ordered,
         cyclic |-> SelectSeq(Distinct(ts), LAMBDA t : st.num_heads[t] # 0)]

Reverse(s) == [i \in 1 .. Len(s) |-> s[Len(s) + 1 - i]]

\* the two lists joined as topological_sort returns them, without the two
\* calls of reverse
sorted_tables_unreversed ==
    LET r == topological_sort(dependencies_between_models)
    IN  r.cyclic \o r.sorted

\* cyclic reversed, then sorted reversed
sorted_tables_by_dependency ==
    LET r == topological_sort(dependencies_between_models)
    IN  Reverse(r.cyclic) \o Reverse(r.sorted)

\* the tables that take part in no dependency pair
without_relatives == Range(tables_without_generics) \ Range(sorted_tables_by_dependency)

Orderings(S) == {s \in [1 .. Cardinality(S) -> S] : Range(s) = S}


\* --------------------------------------- SortedByDependencyTablesCollector

\* collect up to its loop: the order of the tables; the tables without
\* relatives come out of a Python set, in any order
MainSorted ==
    /\ At("main", "sorted")
    /\ \E o \in Orderings(without_relatives) :
          Sched(Call([F("sc") EXCEPT !.todo = o \o sorted_tables_by_dependency],
                     [Top EXCEPT !.pc = "sorted_join"]), <<>>, <<>>, 0)
    /\ UNCHANGED <<inputs, observed, need, checked, ready, hashes, stacks>>

\* collect of the last stage ends without a promotion: the closure is over
MainSortedJoin ==
    /\ At("main", "sorted_join")
    /\ ready' = ready
    /\ tasks' = Collected([tasks EXCEPT ![1].frames = WithTop([Top EXCEPT !.pc = "done"]),
                                        ![1].st = "done"])
    /\ running' = 0
    /\ stacks' = <<>>
    /\ UNCHANGED <<inputs, observed, need, checked, hashes, readyq>>

\* the loop of collect preparing every table, ready or not
SCNextEvery ==
    /\ At("sc", "start")
    /\ IF Top.todo = <<>>
       THEN Sched(Returned, <<>>, <<>>, 0)
       ELSE Sched(Call([F("put") EXCEPT !.tbl = Head(Top.todo)],
                       [Top EXCEPT !.todo = Tail(@)]), <<>>, <<>>, 0)
    /\ UNCHANGED <<inputs, observed, need, checked, ready, hashes, stacks>>

\* the loop of collect: the next table is prepared unless it is ready
SCNext ==
    /\ At("sc", "start")
    /\ IF Top.todo = <<>>
       THEN Sched(Returned, <<>>, <<>>, 0)
       ELSE IF ready[Head(Top.todo)]
       THEN Sched(WithTop([Top EXCEPT !.todo = Tail(@)]), <<>>, <<>>, 0)
       ELSE Sched(Call([F("put") EXCEPT !.tbl = Head(Top.todo)],
                       [Top EXCEPT !.todo = Tail(@)]), <<>>, <<>>, 0)
    /\ UNCHANGED <<inputs, observed, need, checked, ready, hashes, stacks>>

\* where_conditions_columns of _prepare_unready_table: a dict by column name
PutWhere(t) ==
    LET used == SelectSeq(Distinct(highest_priority_fk_columns(t)),
                          LAMBDA c : /\ need[constraint_table(c)] # {}
                                     /\ ~is_full_prepared(constraint_table(c)))
    IN  [i \in 1 .. Len(used) |-> Where(used[i].c, need[constraint_table(used[i])])]

with_full_transferred_table(t) ==
    \E c \in Range(highest_priority_fk_columns(t)) :
        need[constraint_table(c)] # {} /\ is_full_prepared(constraint_table(c))

\* _prepare_unready_table up to the first query
PUTStart ==
    /\ At("put", "start")
    /\ IF /\ highest_priority_fk_columns(Top.tbl) # <<>>
          /\ PutWhere(Top.tbl) = <<>>
          /\ ~with_full_transferred_table(Top.tbl)
       THEN Sched(Returned, <<>>, <<>>, 0)
       ELSE Sched(Call(GetValues(Top.tbl, primary_key(Top.tbl), {}, PutWhere(Top.tbl), FALSE),
                       [Top EXCEPT !.pc = "got", !.flag = PutWhere(Top.tbl) # <<>>]),
                  <<>>, <<>>, 0)
    /\ UNCHANGED <<inputs, observed, need, checked, ready, hashes, stacks>>

\* _prepare_unready_table from the first query to its asyncio.wait
PUTGot ==
    /\ At("put", "got")
    /\ LET rts == revert_foreign_tables(Top.tbl)
           kids == [i \in 1 .. Len(rts) |-> [F("prt") EXCEPT !.tbl = Top.tbl, !.rt = rts[i]]]
       IN  IF highest_priority_fk_columns(Top.tbl) # <<>> /\ Top.flag /\ Top.res = {}
           THEN /\ need' = need
                /\ Sched(Returned, <<>>, <<>>, 0)
           ELSE /\ need' = update_need_transfer_pks(need, Top.tbl, Top.res)
                /\ Sched(WithTop([Top EXCEPT !.pc = "w"]), kids, <<>>,
                         IF kids # <<>> THEN 1 ELSE 0)
    /\ UNCHANGED <<inputs, observed, checked, ready, hashes, stacks>>

\* _prepare_unready_table after the revert tables
PUTW ==
    /\ At("put", "w")
    /\ IF need[Top.tbl] = {}
       THEN /\ Sched(Call(GetValues(Top.tbl, primary_key(Top.tbl), {}, <<>>, FALSE),
                          [Top EXCEPT !.pc = "all"]), <<>>, <<>>, 0)
            /\ ready' = ready
       ELSE /\ ready' = [ready EXCEPT ![Top.tbl] = TRUE]
            /\ Sched(Returned, <<>>, <<>>, 0)
    /\ UNCHANGED <<inputs, observed, need, checked, hashes, stacks>>

\* _prepare_unready_table: the whole table was selected
PUTAll ==
    /\ At("put", "all")
    /\ need' = update_need_transfer_pks(need, Top.tbl, Top.res)
    /\ ready' = [ready EXCEPT ![Top.tbl] = TRUE]
    /\ Sched(Returned, <<>>, <<>>, 0)
    /\ UNCHANGED <<inputs, observed, checked, hashes, stacks>>

\* _prepare_revert_table; tbl is the table and rt the revert table
PRTStart ==
    /\ At("prt", "start")
    /\ LET cs == revert_columns(Top.tbl, Top.rt)
           kids == [i \in 1 .. Len(cs) |->
                        [F("grv") EXCEPT !.tbl = Top.tbl, !.rt = Top.rt, !.col = cs[i]]]
       IN  IF \/ fk_columns_with_key_column(Top.rt) # <<>> /\ ~with_key_column(Top.tbl)
              \/ need[Top.rt] = {}
              \/ kids = <<>>
           THEN Sched(Returned, <<>>, <<>>, 0)
           ELSE Sched(WithTop([Top EXCEPT !.pc = "w"]), kids, <<>>, 1)
    /\ UNCHANGED <<inputs, observed, need, checked, ready, hashes, stacks>>

PRTW ==
    /\ At("prt", "w")
    /\ Sched(Returned, <<>>, <<>>, 0)
    /\ UNCHANGED <<inputs, observed, need, checked, ready, hashes, stacks>>

\* _get_revert_table_column_values up to the query
GRVStart ==
    /\ At("grv", "start")
    /\ LET pks == IF is_full_prepared(Top.rt) THEN {} ELSE need[Top.rt]
       IN  Sched(Call(GetValues(Top.rt, Top.col, pks, <<>>, TRUE), [Top EXCEPT !.pc = "got"]),
                 <<>>, <<>>, 0)
    /\ UNCHANGED <<inputs, observed, need, checked, ready, hashes, stacks>>

GRVGot ==
    /\ At("grv", "got")
    /\ need' = update_need_transfer_pks(need, Top.tbl, Top.res)
    /\ Sched(Returned, <<>>, <<>>, 0)
    /\ UNCHANGED <<inputs, observed, checked, ready, hashes, stacks>>


\* ------------------------------------------------------------ the process

Started == [F("main") EXCEPT !.pc = "key"]

Done == stage = "done"

FullCount(mode, t) ==
    CASE mode = "zero"  -> 0
      [] mode = "exact" -> Cardinality(Sc.rows[t])
      [] mode = "stale" -> Cardinality(Sc.rows[t]) + inaccuracy_count

\* the state after the construction of the databases and of the collectors:
\* nothing is selected, no flag is set, no statement has been executed
Init ==
    /\ scn \in DOMAIN Scenarios
    /\ db = Loaded[scn]
    /\ tenants \in TenantSets
    /\ \E mode \in FullCountModes : full_count = [t \in Tables |-> FullCount(mode, t)]
    /\ chunk_size = CHUNK_SIZE
    /\ dedup = TRUE
    /\ need = [t \in Tables |-> {}]
    /\ checked = [t \in Tables |-> FALSE]
    /\ ready = [t \in Tables |-> FALSE]
    /\ hashes = {}
    /\ tasks = <<[NewTask(Started, 0, 0) EXCEPT !.st = "run"]>>
    /\ readyq = <<>>
    /\ running = 1
    /\ stacks = <<>>
    /\ errors = 0
    /\ failed = FALSE
    /\ run = 1
    /\ first_need = [t \in Tables |-> {}]
    /\ hist = [raised |-> FALSE, fresh |-> TRUE, sent |-> {}, twice |-> FALSE,
               rechunked |-> FALSE, recounted |-> FALSE,
               broken |-> {},
               visited |-> {}]
    /\ arg = <<>>
    /\ out = <<>>
    /\ loading = <<>>
    /\ pool_size = PoolLimit

\* the closure is run once more in the same process: new DBTable objects,
\* the class attribute QUERY_HASHES as the first run left it
Rerun ==
    /\ Done
    /\ ~failed
    /\ run < MaxRuns
    /\ run' = run + 1
    /\ first_need' = need
    /\ hist' = [hist EXCEPT !.fresh = FALSE, !.visited = {}]
    /\ need' = [t \in Tables |-> {}]
    /\ checked' = [t \in Tables |-> FALSE]
    /\ ready' = [t \in Tables |-> FALSE]
    /\ tasks' = <<[NewTask(Started, 0, 0) EXCEPT !.st = "run"]>>
    /\ running' = 1
    /\ UNCHANGED <<inputs, hashes, readyq, stacks, errors, failed>>

\* the closure is run once more in a new process, on the same input
Restart ==
    /\ Done
    /\ ~failed
    /\ run < MaxRuns
    /\ run' = run + 1
    /\ first_need' = need
    /\ need' = [t \in Tables |-> {}]
    /\ checked' = [t \in Tables |-> FALSE]
    /\ ready' = [t \in Tables |-> FALSE]
    /\ hashes' = {}
    /\ hist' = [hist EXCEPT !.sent = {}, !.broken = {}, !.visited = {}]
    /\ tasks' = <<[NewTask(Started, 0, 0) EXCEPT !.st = "run"]>>
    /\ running' = 1
    /\ UNCHANGED <<inputs, readyq, stacks, errors, failed>>

\* after a closure without a fetch error the closure is run once more in a
\* new process in which CHUNK_SIZE has another value, on the same schema,
\* source and tenant set
Rechunk ==
    /\ Done
    /\ ~failed
    /\ errors = 0
    /\ run < MaxRuns
    /\ chunk_size' \in ChunkSizes \ {chunk_size}
    /\ run' = run + 1
    /\ first_need' = need
    /\ need' = [t \in Tables |-> {}]
    /\ checked' = [t \in Tables |-> FALSE]
    /\ ready' = [t \in Tables |-> FALSE]
    /\ hashes' = {}
    /\ hist' = [hist EXCEPT !.sent = {}, !.broken = {}, !.visited = {}, !.rechunked = TRUE]
    /\ tasks' = <<[NewTask(Started, 0, 0) EXCEPT !.st = "run"]>>
    /\ running' = 1
    /\ UNCHANGED <<arg, out, loading, pool_size, scn, db, tenants, full_count, dedup, readyq, stacks, errors, failed>>

\* after a closure without a fetch error the closure is run once more in a
\* new process on the same input, with row counts under which no table is
\* ever full-prepared: every restriction by primary keys is kept
Recount ==
    /\ Done
    /\ ~failed
    /\ errors = 0
    /\ run < MaxRuns
    /\ \E t \in Tables : full_count[t] # FullCount("stale", t) + 1
    /\ full_count' = [t \in Tables |-> FullCount("stale", t) + 1]
    /\ run' = run + 1
    /\ first_need' = need
    /\ need' = [t \in Tables |-> {}]
    /\ checked' = [t \in Tables |-> FALSE]
    /\ ready' = [t \in Tables |-> FALSE]
    /\ hashes' = {}
    /\ hist' = [hist EXCEPT !.sent = {}, !.broken = {}, !.visited = {}, !.recounted = TRUE]
    /\ tasks' = <<[NewTask(Started, 0, 0) EXCEPT !.st = "run"]>>
    /\ running' = 1
    /\ UNCHANGED <<arg, out, loading, pool_size, scn, db, tenants, chunk_size, dedup, readyq, stacks, errors, failed>>

\* after a closure without a fetch error the closure is run once more in a
\* new process, on the same input, by the engine that executes every
\* statement each time it is built: QUERY_HASHES is not consulted
Undedup ==
    /\ Done
    /\ ~failed
    /\ errors = 0
    /\ run < MaxRuns
    /\ dedup
    /\ dedup' = FALSE
    /\ run' = run + 1
    /\ first_need' = need
    /\ need' = [t \in Tables |-> {}]
    /\ checked' = [t \in Tables |-> FALSE]
    /\ ready' = [t \in Tables |-> FALSE]
    /\ hashes' = {}
    /\ hist' = [hist EXCEPT !.sent = {}, !.broken = {}, !.visited = {}]
    /\ tasks' = <<[NewTask(Started, 0, 0) EXCEPT !.st = "run"]>>
    /\ running' = 1
    /\ UNCHANGED <<arg, out, loading, pool_size, scn, db, tenants, full_count, chunk_size, readyq, stacks, errors, failed>>

Loop ==
    \/ Dispatch
    \/ OnCompletion
    \/ \E t \in DOMAIN tasks : FetchDone(t)
    \/ \E t \in DOMAIN tasks : FetchProbeError(t)
    \/ \E t \in DOMAIN tasks : FetchOtherError(t)

QueryRunner == GvReturn \/ GvSkip \/ GvIssue \/ GvRaise

Orchestrator ==
    \/ MainKey
    \/ MainFull
    \/ MainFullJoin
    \/ MainKeycol
    \/ MainKeycolJoin
    \/ MainGeneric
    \/ MainGenericJoin
    \/ MainSorted
    \/ MainSortedJoin

FullTransfer == FTStart \/ FTGot

KeyColumn ==
    \/ PTKStart \/ PTKGot \/ PTKW1 \/ PTKW2
    \/ DRTStart \/ DRTW1 \/ DRTW2
    \/ DFTStart \/ DFTW
    \/ DFCStart \/ DFCGot \/ DFCW
    \/ RRTStart \/ RRTW
    \/ RRRTStart \/ RRRTW \/ RRRTC1 \/ RRRTC2
    \/ RRTCStart \/ RRTCW
    \/ RRTCCStart \/ RRTCCGot

Generic == GCStart \/ PCTT \/ GCMapped \/ GCW \/ GTStart \/ GTW \/ GDStart \/ GDGot

Sorted ==
    \/ SCNext
    \/ PUTStart \/ PUTGot \/ PUTW \/ PUTAll
    \/ PRTStart \/ PRTW
    \/ GRVStart \/ GRVGot

Next ==
    \/ Loop
    \/ QueryRunner
    \/ Orchestrator
    \/ FullTransfer
    \/ KeyColumn
    \/ Generic
    \/ Sorted
    \/ Rerun
    \/ Restart
    \/ Rechunk
    \/ Recount
    \/ Undedup

Spec == Init /\ [][Next]_vars


\* the closure up to the join of the key-column stage, with queries that
\* always return their rows; the event loop runs every scheduled callback
KeycolNext ==
    \/ Dispatch
    \/ OnCompletion
    \/ \E t \in DOMAIN tasks : FetchDone(t)
    \/ GvReturn \/ GvSkip \/ GvIssue
    \/ MainKey
    \/ MainFull
    \/ MainFullJoin
    \/ FullTransfer
    \/ MainKeycol
    \/ MainKeycolJoin
    \/ KeyColumn

KeycolSpec == Init /\ [][KeycolNext]_vars /\ WF_vars(KeycolNext)

\* ------------------------------------------------------------- properties

\* the end of a closure that started from an empty QUERY_HASHES and in which
\* every fetch has returned its rows
CleanEnd == Done /\ hist.fresh /\ errors = 0

RowsIn(t) == {r \in Sc.rows[t] : r[primary_key(t).c] \in need[t]}

ForeignKeys == {c \in Range(Sc.cols) : is_foreign_key(c)}

\* C1 (P2): at the end of the closure every selected row's foreign-key value
\* is NULL or selected in the referenced table
FKClosure ==
    CleanEnd =>
        \A c \in ForeignKeys : \A r \in RowsIn(c.t) :
            r[c.c] = NULL \/ r[c.c] \in need[constraint_table(c)]

\* C2 (P3): at the end of the closure every selected row of a table with the
\* key column has a key value in the tenant set, or NULL
TenantScoping ==
    CleanEnd =>
        \A t \in Tables : with_key_column(t) =>
            \A r \in RowsIn(t) : r[key_column(t).c] \in tenants \cup {NULL}

\* C3 (P1): from the end of the key-table collector on, the key table's
\* need_transfer_pks is the tenant set, and the key-table collector has
\* executed no statement
SeedFidelity ==
    /\ stage # "key" => need[KEY_TABLE_NAME] = tenants
    /\ stage = "full" /\ hist.fresh => hashes = {}

\* the key table has been through the later stages, which selected rows of
\* other tables
SeedFidelityWitness ==
    /\ Done
    /\ need[KEY_TABLE_NAME] = tenants
    /\ \E t \in Tables \ {KEY_TABLE_NAME} : need[t] # {}
    /\ hashes # {}

\* C4: no step changes need_transfer_pks of a table that is ready
ReadyFrozen ==
    [][\A t \in Tables : ready[t] /\ run' = run => need'[t] = need[t]]_vars

\* C5: after all stages every table that is not generic is ready
AllReady ==
    CleanEnd => \A t \in Range(tables_without_generics) : ready[t]

\* C6: a closure of the same input in a new process ends with the
\* need_transfer_pks of the first, whatever the schedules of the two
ScheduleIndependent ==
    CleanEnd /\ run > 1 /\ ~hist.rechunked /\ ~hist.recounted => need = first_need

\* the key-column stage has been joined and every task it created is done
KeycolJoined ==
    /\ stage = "keycol_join"
    /\ running = 1
    /\ \A i \in 2 .. Len(tasks) : tasks[i].st = "done"

\* C7 (P6): the key-column closure, once started, reaches its join with
\* every task it created done
KeycolTerminates == (stage = "keycol") ~> KeycolJoined

\* the join is reached on the foreign-key cycle, after the forward pass went
\* round it
KeycolTerminatesWitness ==
    /\ Sc = ScnCycle
    /\ KeycolJoined
    /\ need["c"] # {}
    /\ Len(tasks) > 10

Parent(t, id) == {r[self_fk_columns(t)[1].c] : r \in {x \in Sc.rows[t] : x.id = id}} \ {NULL}

\* C8 (P7): at the end of the closure the parent of every selected row of a
\* self-referencing table is selected, hence every ancestor
SelfFKAncestors ==
    CleanEnd =>
        \A t \in Tables : self_fk_columns(t) # <<>> =>
            \A id \in need[t] : Parent(t, id) \subseteq need[t]

\* C9: a closure in which a task ended with an error other than the two
\* handled ones does not complete: its collect() fails
ErrorsPropagate == hist.raised /\ Done => failed

\* C10 (P4): a second closure in the same process ends with the
\* need_transfer_pks of the first
Idempotent ==
    Done /\ ~hist.fresh /\ errors = 0 => need = first_need

\* C13: a table whose full_count is 0 is not full-prepared, whatever the
\* size of its need_transfer_pks
ZeroCountNotFull ==
    \A t \in Tables : full_count[t] = 0 => ~is_full_prepared(t)

\* C16: no step of a closure removes an element of need_transfer_pks of any
\* table: the set after the step contains the set before it
OnlyGrow ==
    [][\A t \in Tables : run' = run => need[t] \subseteq need'[t]]_vars

\* a table other than the key table got its rows in more than one update
OnlyGrowWitness ==
    /\ Sc = ScnNode
    /\ tenants = {1}
    /\ CleanEnd
    /\ need["node"] = {1, 2, 4, 5}

\* C20: no statement is executed twice by one process, whatever the
\* interleaving of the tasks (the engine that consults QUERY_HASHES)
AtMostOnce == dedup => ~hist.twice

\* a task is about to skip a statement that another task has sent to the
\* source and that has not returned yet
AtMostOnceWitness ==
    /\ At("gv", "start")
    /\ Top.sqls # <<>>
    /\ Head(Top.sqls) \in hist.sent
    /\ \E i \in DOMAIN tasks :
          /\ tasks[i].st = "io"
          /\ tasks[i].frames[1].sqls # <<>>
          /\ Head(tasks[i].frames[1].sqls) = Head(Top.sqls)

\* C11 (P5): a closure of the same schema, source and tenant set under
\* another CHUNK_SIZE ends with the same need_transfer_pks
ChunkInvariant ==
    CleanEnd /\ hist.rechunked => need = first_need

\* the foreign-key records of the catalog that refer to an excluded table
ExcludedReferences ==
    {c \in Range(Scenarios[scn].cols) :
        is_foreign_key(c) /\ c.ref \in Sc.EXCLUDED_TABLES}

\* the tables named by the frame of a coroutine call
FrameTables(f) == {f.tbl, f.rt, f.live, f.col.t, constraint_table(f.col)} \ {NoTable}

\* C17 (P8): an excluded table is not in the schema model, has no
\* need_transfer_pks, is never queried and never passed to a pass of a
\* collector; a foreign key to an excluded table is not a column of the
\* schema model, is never selected and is never a selection condition
ExcludedIsolation ==
    /\ Tables \cap Sc.EXCLUDED_TABLES = {}
    /\ DOMAIN need \cap Sc.EXCLUDED_TABLES = {}
    /\ \A c \in Range(Sc.cols) :
          c.t \notin Sc.EXCLUDED_TABLES /\ constraint_table(c) \notin Sc.EXCLUDED_TABLES
    /\ \A q \in hist.sent :
          /\ q.tbl \notin Sc.EXCLUDED_TABLES
          /\ \A c \in ExcludedReferences :
                c.t = q.tbl =>
                    c.c # q.col /\ \A i \in DOMAIN q.conds : q.conds[i].c # c.c
    /\ \A i \in DOMAIN tasks : \A k \in DOMAIN tasks[i].frames :
          FrameTables(tasks[i].frames[k]) \cap Sc.EXCLUDED_TABLES = {}

\* the closure has ended on a schema with an excluded table that refers to
\* a selected table and is referenced by it
ExcludedIsolationWitness ==
    /\ Sc.EXCLUDED_TABLES # {}
    /\ ExcludedReferences # {}
    /\ CleanEnd
    /\ need["org"] # {}
    /\ hist.sent # {}

\* C12 (P9): the closure of the same input with every restriction by primary
\* keys kept ends with the need_transfer_pks of the closure that dropped
\* them for full-prepared tables
FullPreparedPreserving ==
    CleanEnd /\ hist.recounted /\ ~hist.rechunked => need = first_need

AllPks(t) == {r[primary_key(t).c] : r \in Sc.rows[t]}

\* C14: after the full-transfer collector every table of FULL_TRANSFER_TABLES
\* that was not ready before it holds all the primary keys of the source
FullTransferWhole ==
    stage = "keycol" /\ hist.fresh /\ errors = 0 =>
        \A t \in Range(FullTransferTables) \ {KEY_TABLE_NAME} : need[t] = AllPks(t)

\* main is between two stages, or after the last
StageBoundary == stage \in {"full", "keycol", "generic", "sorted", "done"}

\* C15: at every stage boundary every value of need_transfer_pks of a table
\* is the primary key of a row of that table in the source
ExistingRowsOnly ==
    StageBoundary => \A t \in Tables : need[t] \subseteq AllPks(t)

\* the rows of generic table g that refer to a selected row of a table of
\* content_type_table whose primary key has the type of object_id
GenericMatches(g) ==
    {r[primary_key(g).c] : r \in
        {x \in Sc.rows[g] :
            \E i \in DOMAIN Sc.content_type_table :
                LET rel == Sc.content_type_table[i][1]
                IN  /\ rel \in Tables
                    /\ primary_key(rel).ty = get_column_by_name(g, "object_id").ty
                    /\ x.content_type_id = Sc.content_type_table[i][2]
                    /\ x.object_id \in need[rel]}}

\* C18: the generic-FK closure adds to a generic table the matching rows
\* only, and has added all of them when it ends
GenericExact ==
    [][\A g \in Range(GenericTables) :
         /\ stage = "generic_join" /\ stage' = stage =>
                need'[g] \ need[g] \subseteq GenericMatches(g)
         /\ stage = "generic_join" /\ stage' = "sorted" /\ hist.fresh /\ errors = 0 =>
                GenericMatches(g) \subseteq need'[g]]_vars

\* the values of column c in the rows of S
Referenced(c, S) == {r[c.c] : r \in S} \ {NULL}

\* C19: after the key-column closure, for a table R without the key column
\* that refers to a key-column table P and for each other foreign key of R,
\* to U: the values referenced by the selected rows of R are selected in U,
\* and no selected value of U is referenced by unselected rows of R only
ReverseThenForward ==
    stage = "generic" /\ hist.fresh /\ errors = 0 =>
        \A P \in Range(tables_with_key_column) : \A R \in Range(revert_foreign_tables(P)) :
            ~with_key_column(R) /\ need[R] # {} =>
                \A i \in DOMAIN not_self_fk_columns(R) :
                    LET c == not_self_fk_columns(R)[i]
                        U == constraint_table(c)
                        others == {d \in ForeignKeys : constraint_table(d) = U}
                    IN  U # P /\ ~with_key_column(U) /\ U # KEY_TABLE_NAME =>
                            /\ Referenced(c, RowsIn(R)) \subseteq need[U]
                            /\ \A v \in need[U] :
                                  v \in Referenced(c, Sc.rows[R] \ RowsIn(R)) =>
                                      \E d \in others : v \in Referenced(d, RowsIn(d.t))

CallTables(fs) ==
    {fs[k].tbl : k \in {j \in DOMAIN fs : fs[j].fn \in {"drt", "rrt"}}}

\* the tables of the calls that enclose the innermost call of task i: the
\* outer frames of the task and the frames of the tasks that created it
RECURSIVE PathTables(_)
PathTables(i) ==
    IF i = 0 \/ tasks[i].frames = <<>>
    THEN {}
    ELSE CallTables(Tail(tasks[i].frames)) \cup
         LET p == tasks[i].parent
         IN  IF p = 0 THEN {} ELSE CallTables(tasks[p].frames) \cup PathTables(p)

\* the tables a starting call finds in the stack_tables it was given and
\* that make it return or leave a branch out
Pruning ==
    IF Top.stk = 0
    THEN {}
    ELSE stacks[Top.stk] \cap
         ({Top.tbl} \cup
          IF Top.fn = "drt"
          THEN {constraint_table(c) : c \in Range(not_self_fk_columns(Top.tbl))}
          ELSE Range(revert_foreign_tables(Top.tbl)) \ {Top.tbl})

\* C22: a table that makes a call of the forward or of the reverse pass
\* return or leave a branch out was added to stack_tables by a call that
\* encloses it, never by a sibling branch
VisitedSetIsolation ==
    At("drt", "start") \/ At("rrt", "start") => Pruning \subseteq PathTables(running)

\* C23: when collect of the full-transfer, of the key-column or of the
\* generic collector goes on after its asyncio.wait, to the promotion and to
\* its return, every task the stage created is done and no callback is
\* scheduled: nothing of the stage is left to write need_transfer_pks
StageJoin ==
    running = 1 /\ stage \in {"full_join", "keycol_join", "generic_join"}
        => /\ \A i \in 2 .. Len(tasks) : tasks[i].st = "done"
           /\ readyq = <<>>

\* the key-column collector is about to promote after a stage in which a
\* fetch has failed in one task while the others went on selecting
StageJoinWitness ==
    /\ running = 1
    /\ stage = "keycol_join"
    /\ errors = 1
    /\ Len(tasks) > 5
    /\ \E t \in Tables : ~with_key_column(t) /\ need[t] # {}

\* C24: at the end of the key-table, full-transfer, key-column, generic and
\* dependency-sorted stage every table with is_checked has
\* is_ready_for_transferring
PromotedAfterStage ==
    StageBoundary => \A t \in Tables : checked[t] => ready[t]

\* the generic stage has ended; the key-column stage before it has checked
\* and promoted a table without the key column that is not a full-transfer
\* table, and another table is neither checked nor ready
PromotedAfterStageWitness ==
    /\ stage = "sorted"
    /\ \E t \in Tables \ Sc.FULL_TRANSFER_TABLES :
          ~with_key_column(t) /\ checked[t] /\ ready[t]
    /\ \E t \in Tables : ~checked[t] /\ ~ready[t]

\* task c was created by the call of _direct_recursively_preparing_table
\* that task p is in, in the list g (1: coroutines, 2: coroutines_hierarchy)
LookupOf(c, p, g) ==
    /\ tasks[c].parent = p
    /\ tasks[c].grp = g
    /\ tasks[p].frames # <<>>
    /\ tasks[p].frames[1].fn = "drt"
    /\ tasks[p].frames[1].pc = "w1"

\* C25: while a lookup over a column of T that is not self-referencing, or
\* the forward processing it started, is not complete, no lookup over a
\* self-referencing column of T has started
SelfFKSecondPhase ==
    \A p \in DOMAIN tasks, c1 \in DOMAIN tasks, c2 \in DOMAIN tasks :
        /\ LookupOf(c1, p, 1)
        /\ tasks[c1].st # "done"
        /\ LookupOf(c2, p, 2)
        => /\ tasks[c2].st = "ready"
           /\ tasks[c2].frames[1].pc = "start"

\* C26: a lookup of the forward pass over a column that is not
\* self-referencing is created only for a referent that has no key column,
\* is not in stack_tables and is not ready at that moment, and a step of the
\* forward pass adds primary keys only to the referent of its column: a table
\* with the key column receives them over a self-referencing column only
ForwardFilter ==
    [][ /\ \A i \in (Len(tasks) + 1) .. Len(tasks') :
              LET f == tasks'[i].frames[1]
                  r == constraint_table(f.col)
              IN  f.fn = "dft" /\ ~is_self_fk(f.col)
                      => /\ ~with_key_column(r)
                         /\ r \notin stacks'[f.stk]
                         /\ ~ready[r]
        /\ At("dfc", "got")
              => \A t \in Tables :
                     need'[t] # need[t]
                         => /\ t = constraint_table(Top.col)
                            /\ with_key_column(t) => is_self_fk(Top.col) ]_vars

\* a lookup of the forward pass is about to add primary keys to a referent
\* without the key column, from a table that also refers to a table with
\* the key column and to a table that is ready
ForwardFilterWitness ==
    /\ At("dfc", "got")
    /\ ~is_self_fk(Top.col)
    /\ Top.res \ need[constraint_table(Top.col)] # {}
    /\ \E c \in Range(not_self_fk_columns(Top.tbl)) : with_key_column(constraint_table(c))
    /\ \E c \in Range(not_self_fk_columns(Top.tbl)) :
          ready[constraint_table(c)] /\ ~with_key_column(constraint_table(c))

\* the rows of the referring table r whose value of column c is a selected
\* primary key of the table c refers to
Referring(r, c) ==
    {x \in Sc.rows[r] : x[c.c] # NULL /\ x[c.c] \in need[constraint_table(c)]}

\* C27: a step of the reverse pass over column c of the referring table R
\* adds to need_transfer_pks of R only primary keys of rows of R whose value
\* of c is in need_transfer_pks of the table referred to; a row with NULL in
\* c is not added
ReverseMatching ==
    [][ At("rrtcc", "got")
          => /\ \A t \in Tables \ {Top.tbl} : need'[t] = need[t]
             /\ need'[Top.tbl] \ need[Top.tbl]
                   \subseteq {x[primary_key(Top.tbl).c] : x \in Referring(Top.tbl, Top.col)} ]_vars

\* the reverse pass is about to add a row of a referring table that has
\* another row with NULL in the column
ReverseMatchingWitness ==
    /\ At("rrtcc", "got")
    /\ Top.res \ need[Top.tbl] # {}
    /\ \E x \in Sc.rows[Top.tbl] : x[Top.col.c] = NULL

\* the columns of t that are foreign keys to another table
OtherFKs(t) == Range(not_self_fk_columns(t))

ToKeyTable(c) == with_key_column(constraint_table(c))

\* the referent of c has a foreign key to a table with the key column
ViaKeyTable(c) == \E d \in OtherFKs(constraint_table(c)) : ToKeyTable(d)

\* the four buckets, in their order
Buckets(t) ==
    << {c \in OtherFKs(t) : is_unique(c) /\ ToKeyTable(c)},
       {c \in OtherFKs(t) : ToKeyTable(c)},
       {c \in OtherFKs(t) : is_unique(c) /\ ViaKeyTable(c)},
       {c \in OtherFKs(t) : ~is_unique(c) /\ ViaKeyTable(c)} >>

FirstBucket(t) ==
    LET full == {i \in 1 .. 4 : Buckets(t)[i] # {}}
    IN  IF full = {} THEN OtherFKs(t)
        ELSE Buckets(t)[CHOOSE i \in full : \A j \in full : i <= j]

\* C28: highest_priority_fk_columns of every table is its first bucket that
\* is not empty, or every foreign key to another table when all four are
\* empty
HighestPriorityBucket ==
    \A t \in Tables : Range(highest_priority_fk_columns(t)) = FirstBucket(t)

\* the position of table t in the order ord
Position(ord, t) == CHOOSE i \in DOMAIN ord : ord[i] = t

\* the cyclic remainder of topological_sort
Cyclic == Range(topological_sort(dependencies_between_models).cyclic)

\* C29: in every order the dependency-sorted collector can build (the tables
\* without relations in any order, then the reversed cyclic remainder, then
\* the reversed sorted list) every table name stands once, every table that
\* is not generic stands in it, and a table outside the cyclic remainder
\* stands after every table it refers to by a foreign key to another table
ParentsFirst ==
    At("main", "sorted") =>
        \A o \in Orderings(without_relatives) :
            LET ord == o \o sorted_tables_by_dependency
            IN  /\ \A i, j \in DOMAIN ord : ord[i] = ord[j] => i = j
                /\ Range(tables_without_generics) \subseteq Range(ord)
                /\ \A k \in DOMAIN dependencies_between_models :
                       LET p == dependencies_between_models[k]
                       IN  p[1] \notin Cyclic => Position(ord, p[2]) < Position(ord, p[1])

\* the collector builds its order on a schema with a cyclic remainder, a
\* sorted part of more than one table and tables still to be prepared
ParentsFirstWitness ==
    /\ At("main", "sorted")
    /\ Cyclic # {}
    /\ Len(topological_sort(dependencies_between_models).sorted) > 1
    /\ \E t \in Tables : ~ready[t]

\* C30: the dependency-sorted collector never calls _prepare_unready_table
\* for a table of TABLES_WITH_GENERIC_FOREIGN_KEY
SortedSkipsGenerics ==
    /\ At("put", "start")
    /\ Len(tasks[running].frames) > 1
    /\ tasks[running].frames[2].fn = "sc"
    => Top.tbl \notin Sc.TABLES_WITH_GENERIC_FOREIGN_KEY

\* C31: when _prepare_unready_table selects the whole table because
\* need_transfer_pks was still empty, the table afterwards needs every primary
\* key it has in the source, and it is ready
WholeTableFallback ==
    [][PUTAll => need'[Top.tbl] = AllPks(Top.tbl) /\ ready'[Top.tbl]]_vars

\* the IN-lists of a statement: the values of each foreign condition and the
\* primary-key values
InLists(q) == {q.conds[i].ids : i \in DOMAIN q.conds} \cup {q.pk}

\* C32: no statement that is executed has an IN-list of more than CHUNK_SIZE
\* values
ChunkBound ==
    [][GvIssue => \A ids \in InLists(Head(Top.sqls)) : Cardinality(ids) <= chunk_size]_vars

\* ------------------------------------------- helpers called on their own

\* the closure part of the state of a process in which no collector has run
Constructed ==
    /\ need = [t \in Tables |-> {}]
    /\ checked = [t \in Tables |-> FALSE]
    /\ ready = [t \in Tables |-> FALSE]
    /\ hashes = {}
    /\ tasks = <<[NewTask(Started, 0, 0) EXCEPT !.st = "run"]>>
    /\ readyq = <<>>
    /\ running = 1
    /\ stacks = <<>>
    /\ errors = 0
    /\ failed = FALSE
    /\ run = 1
    /\ first_need = [t \in Tables |-> {}]
    /\ hist = [raised |-> FALSE, fresh |-> TRUE, sent |-> {}, twice |-> FALSE,
               rechunked |-> FALSE, recounted |-> FALSE,
               broken |-> {},
               visited |-> {}]

\* a table with the key column and three more foreign keys, for statements
\* with up to three foreign conditions
ScnWide ==
    [ tables |-> <<"tenant", "a", "b", "c", "wide">>,
      cols |-> << Pk("tenant"), Pk("a"), Pk("b"), Pk("c"),
                  Pk("wide"), Fk("wide", "tenant_id", "tenant"),
                  Fk("wide", "a_id", "a"), Fk("wide", "b_id", "b"),
                  Fk("wide", "c_id", "c") >>,
      rows |-> [ tenant |-> { [id |-> 1], [id |-> 2] },
                 a |-> {}, b |-> {}, c |-> {}, wide |-> {} ],
      FULL_TRANSFER_TABLES |-> {},
      TABLES_WITH_GENERIC_FOREIGN_KEY |-> {},
      EXCLUDED_TABLES |-> {},
      content_type_table |-> <<>> ]

MaxId == 3

IdSpace == 1 .. MaxId

\* every row a source table wide can hold
RowSpace ==
    [ id : 1 .. 2, tenant_id : {NULL} \cup (1 .. MaxTenant),
      a_id : {NULL} \cup (1 .. 2), b_id : {NULL} \cup (1 .. 2), c_id : {NULL} \cup IdSpace ]

\* where_conditions_columns with or without an entry for column c
OptWhere(c, idsets) == {<<>>} \cup {<<Where(c, ids)>> : ids \in idsets}

\* the arguments of get_table_column_values_sql: a mapping with the key
\* column and up to three foreign-key columns, in the order of insertion
SqlArgs ==
    { [fn |-> "sql", where |-> k \o x \o y \o z, is_revert |-> r, pks |-> p] :
        k \in OptWhere("tenant_id", {{1}}),
        x \in OptWhere("a_id", SUBSET (1 .. 2)),
        y \in OptWhere("b_id", SUBSET (1 .. 2)),
        z \in OptWhere("c_id", SUBSET IdSpace),
        r \in BOOLEAN, p \in {{}, {1}} }

MaxPairs == 4

Nodes == {"a", "b", "c"}

\* the arguments of topological_sort: every list of up to MaxPairs pairs
\* over three nodes, self-pairs, repeated pairs and cycles among them
SortArgs ==
    { [fn |-> "sort", pairs |-> p] :
        p \in UNION {[1 .. n -> Nodes \X Nodes] : n \in 0 .. MaxPairs} }

MaxLen == 5

MaxSize == 3

\* the arguments of make_chunks(iterable, size, is_list=True)
ChunkArgs ==
    { [fn |-> "chunks", iterable |-> s, size |-> z] :
        s \in UNION {[1 .. n -> 1 .. 2] : n \in 0 .. MaxLen}, z \in 1 .. MaxSize }

HelperInit ==
    /\ loading = <<>>
    /\ pool_size = PoolLimit
    /\ scn = 0
    /\ db = prepare_structure(ScnWide)
    /\ tenants = {1}
    /\ full_count = [t \in Tables |-> 0]
    /\ dedup = TRUE
    /\ Constructed
    /\ out = <<>>
    /\ \/ arg \in SqlArgs /\ chunk_size \in 1 .. 2
       \/ arg \in SortArgs /\ chunk_size = CHUNK_SIZE
       \/ arg \in ChunkArgs /\ chunk_size = CHUNK_SIZE

\* SQLRepository.get_table_column_values_sql called with the arguments
SqlCall ==
    /\ arg.fn = "sql"
    /\ out = <<>>
    /\ out' = << get_table_column_values_sql("wide", primary_key("wide"), arg.pks,
                                              arg.where, arg.is_revert) >>
    /\ UNCHANGED <<arg, loading, pool_size, scn, db, tenants, full_count, chunk_size, dedup, need, checked,
                   ready, hashes, tasks, readyq, running, stacks, errors, failed, run,
                   first_need, hist>>

\* topological_sort called with the pairs
SortCall ==
    /\ arg.fn = "sort"
    /\ out = <<>>
    /\ out' = << topological_sort(arg.pairs) >>
    /\ UNCHANGED <<arg, loading, pool_size, scn, db, tenants, full_count, chunk_size, dedup, need, checked,
                   ready, hashes, tasks, readyq, running, stacks, errors, failed, run,
                   first_need, hist>>

\* list(make_chunks(iterable, size, is_list=True))
ChunkCall ==
    /\ arg.fn = "chunks"
    /\ out = <<>>
    /\ out' = << make_chunks(arg.iterable, arg.size) >>
    /\ UNCHANGED <<arg, loading, pool_size, scn, db, tenants, full_count, chunk_size, dedup, need, checked,
                   ready, hashes, tasks, readyq, running, stacks, errors, failed, run,
                   first_need, hist>>

HelperNext ==
    \/ SqlCall
    \/ SortCall
    \/ ChunkCall

HelperSpec == HelperInit /\ [][HelperNext]_vars

\* the foreign conditions of the call and the fragments each is cut into
ForeignConds == SelectSeq(arg.where, LAMBDA w : w.c \notin KEY_COLUMN_NAMES)

CondLists == [i \in DOMAIN ForeignConds |-> WhereFragments(ForeignConds[i], arg.is_revert)]

Multi == {i \in DOMAIN CondLists : Len(CondLists[i]) > 1}

Single == {i \in DOMAIN CondLists : Len(CondLists[i]) = 1}

\* the Cartesian product of the chunk lists of the conditions with more than
\* one chunk: one chunk index per such condition
Choices == {f \in [Multi -> 1 .. MaxId] : \A i \in Multi : f[i] <= Len(CondLists[i])}

\* one statement with every foreign condition whole
Unchunked ==
    Query("wide", primary_key("wide"), arg.pks,
          [i \in DOMAIN ForeignConds |->
             [c |-> ForeignConds[i].c, ids |-> ForeignConds[i].ids,
              mode |-> IF ForeignConds[i].ids = {} THEN "isnull"
                       ELSE IF arg.is_revert THEN "in" ELSE "in_or_null"]])

\* C33: get_table_column_values_sql returns one statement per element of the
\* Cartesian product of the chunk lists of the conditions with more than one
\* chunk, none twice and none missing; every statement holds one fragment
\* of each condition, the single-chunk ones included once; and the rows the
\* statements select together are the rows that the conjunction of the
\* unchunked conditions selects
CartesianCombination ==
    arg.fn = "sql" /\ out # <<>> =>
        LET qs == out[1]
        IN  /\ Len(qs) = Cardinality(Choices)
            /\ \A i, j \in DOMAIN qs : qs[i] = qs[j] => i = j
            /\ \A f \in Choices : \E k \in DOMAIN qs :
                   \A i \in Multi : CondLists[i][f[i]] \in Range(qs[k].conds)
            /\ \A k \in DOMAIN qs :
                   /\ Len(qs[k].conds) = Len(CondLists)
                   /\ \A i \in Single :
                          Cardinality({j \in DOMAIN qs[k].conds :
                                          qs[k].conds[j] = CondLists[i][1]}) = 1
            /\ \A r \in RowSpace :
                   (\E k \in DOMAIN qs : WhereHolds(qs[k], r)) <=> WhereHolds(Unchunked, r)

\* a condition of two chunks, one of three and one of a single chunk
CartesianWitness ==
    /\ arg.fn = "sql"
    /\ out # <<>>
    /\ Cardinality(Multi) = 2
    /\ Single # {}
    /\ Len(out[1]) = 6

\* the nodes that occur in a pair, and the pairs as arrows
PairNodes == {arg.pairs[i][1] : i \in DOMAIN arg.pairs} \cup {arg.pairs[i][2] : i \in DOMAIN arg.pairs}

Arrows == Range(arg.pairs)

Follow(R) == R \cup {<<z[1][1], z[2][2]>> : z \in {w \in R \X Arrows : w[1][2] = w[2][1]}}

\* some node is reached from itself over one arrow or more
HasCycle == \E n \in PairNodes : <<n, n>> \in Follow(Follow(Follow(Arrows)))

Occurrences(s, x) == Cardinality({i \in DOMAIN s : s[i] = x})

\* C39: topological_sort returns two lists that partition the nodes of the
\* pairs: every node stands once in sorted or once in cyclic, never in
\* both; for a pair (h, t) with both ends in sorted, h stands before t;
\* cyclic is empty exactly when no node is reached from itself; the call
\* returns for every list of pairs
SortPartitions ==
    arg.fn = "sort" /\ out # <<>> =>
        LET r == out[1]
        IN  /\ Range(r.sorted) \cup Range(r.cyclic) = PairNodes
            /\ \A n \in PairNodes : Occurrences(r.sorted, n) + Occurrences(r.cyclic, n) = 1
            /\ \A i \in DOMAIN arg.pairs :
                   LET h == arg.pairs[i][1]
                       t == arg.pairs[i][2]
                   IN  h \in Range(r.sorted) /\ t \in Range(r.sorted) =>
                           Position(r.sorted, h) < Position(r.sorted, t)
            /\ r.cyclic = <<>> <=> ~HasCycle

\* a repeated pair, a self-pair and a node in each list
SortWitness ==
    /\ arg.fn = "sort"
    /\ out # <<>>
    /\ \E i, j \in DOMAIN arg.pairs : i # j /\ arg.pairs[i] = arg.pairs[j]
    /\ \E i \in DOMAIN arg.pairs : arg.pairs[i][1] = arg.pairs[i][2]
    /\ Len(out[1].sorted) = 2
    /\ Len(out[1].cyclic) = 1

\* C40: make_chunks with is_list=True and a size of one or more cuts the
\* input without loss: the chunks joined are the input in its order, no
\* chunk is empty or longer than size, every chunk but the last has size
\* elements, and an empty input gives no chunk
ChunksLossless ==
    arg.fn = "chunks" /\ out # <<>> =>
        LET chunks == out[1]
        IN  /\ FlatMap(LAMBDA c : c, chunks) = arg.iterable
            /\ \A k \in DOMAIN chunks : chunks[k] # <<>> /\ Len(chunks[k]) <= arg.size
            /\ \A k \in DOMAIN chunks : k < Len(chunks) => Len(chunks[k]) = arg.size
            /\ arg.iterable = <<>> => chunks = <<>>

\* an input cut into two full chunks and a shorter last one
ChunksWitness ==
    /\ arg.fn = "chunks"
    /\ out # <<>>
    /\ Len(out[1]) = 3
    /\ Len(out[1][3]) < arg.size

\* ---------------------------------------------------------- schema loading

\* a schema for the loading: org.owner is UNIQUE and a foreign key to the key
\* table, doc.id is the primary key and a foreign key to org (a table that
\* extends org), doc.tenant_id carries the key column by its name
ScnLoad ==
    [ tables |-> <<"tenant", "org", "doc">>,
      cols |-> << Pk("tenant"),
                  Pk("org"), Col("org", "owner", "integer", "tenant", {"UQ", "FK"}),
                  Col("doc", "id", "integer", "org", {"PK", "FK"}),
                  Fk("doc", "tenant_id", "tenant"),
                  Plain("doc", "title") >>,
      rows |-> [ tenant |-> {}, org |-> {}, doc |-> {} ],
      FULL_TRANSFER_TABLES |-> {},
      TABLES_WITH_GENERIC_FOREIGN_KEY |-> {},
      EXCLUDED_TABLES |-> {},
      content_type_table |-> <<>> ]

NoKind == "-"

\* the records the catalog query of _prepare_chunk_tables returns for a
\* column: one for each of its constraints, with the table the constraint
\* names, or one without a constraint
RecordsOf(c) ==
    IF c.kinds = {}
    THEN { [t |-> c.t, c |-> c.c, constraint_table |-> NoTable, constraint_type |-> NoKind] }
    ELSE { [t |-> c.t, c |-> c.c,
            constraint_table |-> IF k = "FK" THEN c.ref ELSE c.t,
            constraint_type |-> k] : k \in c.kinds }

CatalogRecords == UNION {RecordsOf(Sc.cols[i]) : i \in DOMAIN Sc.cols}

NoCache == [x \in {} |-> FALSE]

\* DstDatabase.prepare_tables: the tables are created without columns, the
\* records are not yet appended, no memoised property has been read
LoadInit ==
    /\ pool_size = PoolLimit
    /\ arg = <<>>
    /\ out = <<>>
    /\ scn = 0
    /\ db = prepare_structure(ScnLoad)
    /\ tenants = {1}
    /\ full_count = [t \in Tables |-> 0]
    /\ chunk_size = CHUNK_SIZE
    /\ dedup = TRUE
    /\ Constructed
    /\ loading = [ records |-> CatalogRecords,
                   columns |-> <<>>,
                   key_column |-> [t \in Tables |-> NoTable],
                   revert_foreign_tables |-> {},
                   is_foreign_key |-> NoCache,
                   is_key_column |-> NoCache,
                   loaded |-> FALSE ]

\* the memoised DBColumn properties: the value in the cache, or the value
\* computed from the column as it is now
ComputedIsForeignKey(column) == "FK" \in Range(column.constraint_type)

ComputedIsKeyColumn(column) ==
    column.c \in KEY_COLUMN_NAMES \/ column.constraint_table = KEY_TABLE_NAME

Memoised(cache, column, computed) ==
    IF <<column.t, column.c>> \in DOMAIN cache THEN cache[<<column.t, column.c>>] ELSE computed

\* DBTable.append_column for one record r of the catalog; clearing: the
\* is_foreign_key cache is cleared when an existing column gets its FOREIGN
\* KEY record
AppendRecord(r, clearing) ==
    LET id == <<r.t, r.c>>
        known == {i \in DOMAIN loading.columns :
                     loading.columns[i].t = r.t /\ loading.columns[i].c = r.c}
        old == loading.columns[CHOOSE i \in known : TRUE]
        foreign == r.constraint_type = "FK"
        col ==
            IF known # {}
            THEN [old EXCEPT
                    !.constraint_type = IF r.constraint_type # NoKind
                                        THEN Append(@, r.constraint_type) ELSE @,
                    !.constraint_table = IF foreign THEN r.constraint_table ELSE @]
            ELSE [t |-> r.t, c |-> r.c, constraint_table |-> r.constraint_table,
                  constraint_type |-> IF r.constraint_type # NoKind
                                      THEN <<r.constraint_type>> ELSE <<>>]
        appended == IF known # {}
                   THEN [i \in DOMAIN loading.columns |->
                            IF i \in known THEN col ELSE loading.columns[i]]
                   ELSE Append(loading.columns, col)
        fk_cleared == IF known # {} /\ foreign /\ clearing THEN NoCache
                      ELSE loading.is_foreign_key
        asks_key == loading.key_column[r.t] = NoTable
        key_cache == IF asks_key
                     THEN (id :> Memoised(loading.is_key_column, col,
                                          ComputedIsKeyColumn(col)))
                          @@ loading.is_key_column
                     ELSE loading.is_key_column
        fk_cache == (id :> Memoised(fk_cleared, col, ComputedIsForeignKey(col)))
                    @@ fk_cleared
    IN  loading' =
            [loading EXCEPT
               !.records = @ \ {r},
               !.columns = appended,
               !.is_key_column = key_cache,
               !.is_foreign_key = fk_cache,
               !.key_column = IF asks_key /\ key_cache[id]
                              THEN [@ EXCEPT ![r.t] = r.c] ELSE @,
               !.revert_foreign_tables =
                   IF fk_cache[id] THEN @ \cup {<<col.constraint_table, r.t, r.c>>}
                   ELSE @]

\* append_column without the cache_clear of is_foreign_key
AppendColumnStale ==
    /\ loading # <<>>
    /\ \E r \in loading.records : AppendRecord(r, FALSE)
    /\ UNCHANGED <<arg, out, pool_size, scn, db, tenants, full_count, chunk_size, dedup,
                   need, checked, ready, hashes, tasks, readyq, running, stacks, errors,
                   failed, run, first_need, hist>>

\* the next append_column coroutine of _prepare_chunk_tables runs; the
\* catalog query has no ORDER BY, so any record can be the next
AppendColumn ==
    /\ loading # <<>>
    /\ \E r \in loading.records : AppendRecord(r, TRUE)
    /\ UNCHANGED <<arg, out, pool_size, scn, db, tenants, full_count, chunk_size, dedup,
                   need, checked, ready, hashes, tasks, readyq, running, stacks, errors,
                   failed, run, first_need, hist>>

\* the end of _prepare_chunk_tables: clear_cache empties the caches of the
\* eight foreign-key lists of DBTable, none of which has been read, and
\* leaves the caches of DBColumn and of key_column as they are
ClearCache ==
    /\ loading # <<>>
    /\ loading.records = {}
    /\ ~loading.loaded
    /\ loading' = [loading EXCEPT !.loaded = TRUE]
    /\ UNCHANGED <<arg, out, pool_size, scn, db, tenants, full_count, chunk_size, dedup,
                   need, checked, ready, hashes, tasks, readyq, running, stacks, errors,
                   failed, run, first_need, hist>>

LoadNext ==
    \/ AppendColumn
    \/ ClearCache

LoadSpec == LoadInit /\ [][LoadNext]_vars

\* what the properties return after the loading
LoadedIsForeignKey(column) ==
    Memoised(loading.is_foreign_key, column, ComputedIsForeignKey(column))

LoadedIsKeyColumn(column) ==
    Memoised(loading.is_key_column, column, ComputedIsKeyColumn(column))

LoadedIsPrimaryKey(column) == "PK" \in Range(column.constraint_type)

LoadedIsUnique(column) ==
    \/ "UQ" \in Range(column.constraint_type)
    \/ LoadedIsForeignKey(column) /\ LoadedIsPrimaryKey(column)

LoadedColumns(t) == SelectSeq(loading.columns, LAMBDA c : c.t = t)

LoadedForeignKeys(t) == SelectSeq(LoadedColumns(t), LoadedIsForeignKey)

LoadedFkWithKeyColumn(t) ==
    SelectSeq(LoadedForeignKeys(t),
              LAMBDA c : c.constraint_table # t /\ loading.key_column[c.constraint_table] # NoTable)

Names(s) == {s[i].c : i \in DOMAIN s}

\* C34: after the loading every memoised property of every column and table
\* returns what a computation from the final facts of the columns returns,
\* in whatever order the records of a column have arrived
FreshAfterLoading ==
    loading # <<>> /\ loading.loaded =>
        /\ \A i \in DOMAIN loading.columns :
               LET column == loading.columns[i]
                   fresh == get_column_by_name(column.t, column.c)
               IN  /\ LoadedIsKeyColumn(column) = is_key_column(fresh)
                   /\ LoadedIsForeignKey(column) = is_foreign_key(fresh)
                   /\ LoadedIsPrimaryKey(column) = is_primary_key(fresh)
                   /\ LoadedIsUnique(column) = is_unique(fresh)
        /\ \A t \in Tables :
               /\ (loading.key_column[t] # NoTable) = with_key_column(t)
               /\ with_key_column(t) =>
                      loading.key_column[t] \in Names(SelectSeq(columns(t), is_key_column))
               /\ Names(LoadedForeignKeys(t)) = Names(foreign_keys_columns(t))
               /\ Names(LoadedFkWithKeyColumn(t)) = Names(fk_columns_with_key_column(t))

\* C35: after the loading the reverse map of every table R holds, under the
\* referring table T, exactly the foreign-key columns of T whose referent is
\* R, whether the FOREIGN KEY record of a column came first or after its
\* PRIMARY KEY or UNIQUE record
RevertMapConsistent ==
    loading # <<>> /\ loading.loaded =>
        loading.revert_foreign_tables =
            { <<Sc.cols[i].ref, Sc.cols[i].t, Sc.cols[i].c>> :
                i \in {j \in DOMAIN Sc.cols : is_foreign_key(Sc.cols[j])} }

\* two columns got their FOREIGN KEY record after they had been created
\* from a UNIQUE and from a PRIMARY KEY record
RevertMapWitness ==
    /\ loading # <<>>
    /\ loading.loaded
    /\ \E i, j \in DOMAIN loading.columns :
           /\ loading.columns[i].constraint_type = <<"UQ", "FK">>
           /\ loading.columns[j].constraint_type = <<"PK", "FK">>

\* ------------------------------------------------- the source pool

SmallPool == 2

\* a closure on a source pool of one or two connections
PoolInit ==
    /\ scn \in DOMAIN Scenarios
    /\ db = Loaded[scn]
    /\ tenants \in TenantSets
    /\ \E mode \in FullCountModes : full_count = [t \in Tables |-> FullCount(mode, t)]
    /\ chunk_size = CHUNK_SIZE
    /\ dedup = TRUE
    /\ Constructed
    /\ arg = <<>>
    /\ out = <<>>
    /\ loading = <<>>
    /\ pool_size \in 1 .. SmallPool

PoolNext ==
    \/ Loop
    \/ QueryRunner
    \/ Orchestrator
    \/ FullTransfer
    \/ KeyColumn
    \/ Generic
    \/ Sorted
    \/ \E t \in DOMAIN tasks : Acquire(t)

PoolSpec == PoolInit /\ [][PoolNext]_vars

\* the tasks inside pool.acquire()
Waiting == {t \in DOMAIN tasks : tasks[t].st = "pool"}

\* C36: a task holds a connection only inside the one fetch of
\* _get_table_column_values_part, never while it waits for a sub-task or
\* for a connection; no more connections are held than the pool has; and
\* the closure is never stuck on the pool, also with a pool of one
\* connection: while it has not ended and the loop has nothing to run, a
\* fetch is under way or a waiting task can take a free connection
ConnectionsBounded ==
    /\ Cardinality(Held) <= pool_size
    /\ \A t \in Held \cup Waiting :
           /\ tasks[t].frames[1].fn = "gv"
           /\ tasks[t].frames[1].pc = "fetch"
           /\ tasks[t].waitN = 0
    /\ running = 0 /\ readyq = <<>> /\ ~Done /\ ~failed =>
           \/ Held # {}
           \/ Waiting # {} /\ Cardinality(Held) < pool_size

\* two tasks have asked the pool of one connection: one fetches, one waits
ConnectionsWitness ==
    /\ pool_size = 1
    /\ Cardinality(Held) = 1
    /\ Waiting # {}

\* C37: the hash of a statement is in QUERY_HASHES before the statement is
\* executed; a statement whose fetch has ended in an error, swallowed or
\* not, is not executed again in the process, and a later call that builds
\* the same statement drops it and gets no value from it
NeverRetried ==
    [][dedup =>
         /\ \A t \in Held \cup Waiting : Head(tasks[t].frames[1].sqls) \in hashes
         /\ hist.broken \subseteq hashes
         /\ GvIssue => Head(Top.sqls) \notin hist.broken
         /\ At("gv", "start") /\ Top.sqls # <<>> /\ Head(Top.sqls) \in hist.broken
            /\ tasks' # tasks =>
               /\ GvSkip
               /\ tasks'[running].frames[1].acc = Top.acc]_vars

\* a call has built a statement whose fetch ended in an error before
NeverRetriedWitness ==
    /\ dedup
    /\ At("gv", "start")
    /\ Top.sqls # <<>>
    /\ Head(Top.sqls) \in hist.broken

\* ---------------------------------------------------- visited referents

\* the key-column stage of this run is over
AfterKeycol == stage \in {"generic", "generic_join", "sorted", "sorted_join", "done"}

\* a call of _prepare_unready_table on table t is in progress
Preparing(t) ==
    \E i \in DOMAIN tasks : \E k \in DOMAIN tasks[i].frames :
        /\ tasks[i].st # "done"
        /\ tasks[i].frames[k].fn = "put"
        /\ tasks[i].frames[k].tbl = t

\* a forward pass marks the referent before the lookup is issued; after the
\* key-column stage a visited referent is ready and the dependency-sorted
\* stage does not prepare it
VisitedReady ==
    /\ DFCStart => /\ checked'[constraint_table(Top.col)]
                   /\ hashes' = hashes
    /\ AfterKeycol => \A t \in hist.visited : ready[t] /\ ~Preparing(t)

====
